---------------------------- MODULE Spec2Model ----------------------------
(***************************************************************************)
(* A model of the order-management backend: the retry/backoff executor     *)
(* (utils/helpers retryWithBackoff), the order service over the document   *)
(* store and the event bus (services/order-service), and the error         *)
(* boundary of the request pipeline (middleware/lambda-middleware).        *)
(*                                                                         *)
(* The specifications share the variables:                                 *)
(*   SpecRetry    one retryWithBackoff(fn, options) call, step by step     *)
(*   Spec         concurrent createOrder / updateOrder / deleteOrder calls *)
(*   SpecCU       the same with createOrder and updateOrder only           *)
(*   SpecMw       one request through a composed middleware chain          *)
(*   SpecBuilder  one OrderBuilder, from new OrderBuilder() to build()     *)
(*   SpecRegistry an EventHandlerRegistry and the EventBridge entry point  *)
(*   SpecHttp     one API Gateway request through an order handler         *)
(*   SpecSqs      one invocation of sqsHandler on a batch of records       *)
(*   SpecPublisher  one publish or publishBatch call, attempt by attempt   *)
(*   SpecRepository one DynamoDBRepository call, attempt by attempt        *)
(*   SpecConcurrent several requests at once through one composed handler  *)
(***************************************************************************)
EXTENDS Integers, Sequences, FiniteSets, Bags, TLC

VARIABLES
    rOptions,   \* the options object passed to retryWithBackoff
    rState,     \* the locals of the running retryWithBackoff call
    fnLog,      \* the outcomes of the invocations of fn, in order
    store,      \* the Orders table: primary key -> item, for the items present
    bus,        \* the entries the event bus has accepted (a bag)
    clock,      \* the current instant, as new Date() reads it
    idsIssued,  \* how many identifiers generateId has produced
    call,       \* the service invocations: each one's locals and position
    mw,         \* the request going through a composed middleware chain
    builder,    \* an OrderBuilder: its private order and what build() did
    registry,   \* an EventHandlerRegistry's handlers map: event type -> handler
    disp,       \* the dispatch or EventBridge invocation in progress
    http,       \* the API Gateway request being served by an order handler
    sqs,        \* the queue batch being processed by sqsHandler
    pub,        \* the publish or publishBatch call in progress and its transport
    repo,       \* the repository call in progress and its store commands
    conc        \* the requests one composed handler is serving at once

retryVars == <<rOptions, rState, fnLog>>
svcVars == <<store, bus, clock, idsIssued, call>>
mwVars == <<mw>>
bldVars == <<builder>>
regVars == <<registry, disp>>
httpVars == <<http>>
ioVars == <<sqs, pub, repo, conc>>

vars == <<rOptions, rState, fnLog, store, bus, clock, idsIssued, call, mw,
          builder, registry, disp, http, sqs, pub, repo, conc>>

(***************************************************************************)
(* JavaScript values                                                       *)
(***************************************************************************)

\* the value undefined, where the other values of the field are strings
Undefined == "undefined"

\* { ...a, ...b }: the keys of b override those of a
Merge(a, b) ==
    [k \in (DOMAIN a) \cup (DOMAIN b) |-> IF k \in DOMAIN b THEN b[k] ELSE a[k]]

\* Math.pow(b, e) for a non-negative integer exponent
RECURSIVE Pow(_, _)
Pow(b, e) == IF e <= 0 THEN 1 ELSE b * Pow(b, e - 1)

\* Math.min(a, b)
Min(a, b) == IF a <= b THEN a ELSE b

(***************************************************************************)
(* retryWithBackoff (utils/helpers)                                        *)
(***************************************************************************)

\* the defaults of the destructured options
DefaultMaxRetries == 3
DefaultInitialDelayMs == 100
DefaultMaxDelayMs == 10000
DefaultBackoffMultiplier == 2

\* const { key = default } = options: the default applies when the key is undefined
Opt(options, key, default) ==
    IF key \in DOMAIN options THEN options[key] ELSE default

maxRetriesOf(options) == Opt(options, "maxRetries", DefaultMaxRetries)
initialDelayMsOf(options) == Opt(options, "initialDelayMs", DefaultInitialDelayMs)
maxDelayMsOf(options) == Opt(options, "maxDelayMs", DefaultMaxDelayMs)
backoffMultiplierOf(options) == Opt(options, "backoffMultiplier", DefaultBackoffMultiplier)

\* the outcome of one invocation of fn: a resolved value or a rejection
Resolved(v) == [ok |-> TRUE, value |-> v, error |-> Undefined]
Rejected(e) == [ok |-> FALSE, value |-> Undefined, error |-> e]

\* faulty variant of retryDelay: the delay is not capped by maxDelayMs
retryDelayUncapped(options, attempt) ==
    initialDelayMsOf(options) * Pow(backoffMultiplierOf(options), attempt)

\* const delay = Math.min(initialDelayMs * Math.pow(backoffMultiplier, attempt), maxDelayMs)
retryDelay(options, attempt) ==
    Min(initialDelayMsOf(options) * Pow(backoffMultiplierOf(options), attempt),
        maxDelayMsOf(options))

\* the loop test: attempt <= maxRetries; when it fails the loop is left and
\* lastError is thrown
retryLoopTest(r, options) ==
    IF r.attempt <= maxRetriesOf(options)
    THEN [r EXCEPT !.pc = "call"]
    ELSE [r EXCEPT !.pc = "thrown", !.thrown = r.lastError]

\* let lastError; for (let attempt = 0; ...
retryStart(options) ==
    retryLoopTest([pc |-> "call", attempt |-> 0, lastError |-> Undefined,
                   result |-> Undefined, thrown |-> Undefined,
                   calls |-> 0, sleeps |-> <<>>], options)

\* faulty variant of retryFail: maxRetries counts the attempts, not the retries
retryFailOneLess(r, options, error) ==
    LET r1 == [r EXCEPT !.lastError = error, !.calls = @ + 1]
    IN  IF r.attempt + 1 >= maxRetriesOf(options)
        THEN [r1 EXCEPT !.pc = "thrown", !.thrown = r1.lastError]
        ELSE [r1 EXCEPT !.pc = "sleep",
                        !.sleeps = Append(@, retryDelay(options, r.attempt))]

\* the catch block of one iteration whose await fn() rejected with error
retryFail(r, options, error) ==
    LET r1 == [r EXCEPT !.lastError = error, !.calls = @ + 1]
    IN  IF r.attempt = maxRetriesOf(options)
        THEN [r1 EXCEPT !.pc = "thrown", !.thrown = r1.lastError]
        ELSE [r1 EXCEPT !.pc = "sleep",
                        !.sleeps = Append(@, retryDelay(options, r.attempt))]

\* faulty variant of retryOnOutcome: a success does not leave the loop before
\* the last attempt
retryIgnoresSuccess(r, options, out) ==
    IF out.ok /\ r.attempt = maxRetriesOf(options)
    THEN [r EXCEPT !.pc = "returned", !.result = out.value, !.calls = @ + 1]
    ELSE IF out.ok
    THEN [r EXCEPT !.pc = "sleep", !.result = out.value, !.calls = @ + 1]
    ELSE retryFail(r, options, out.error)

\* one iteration: try { return await fn() } catch (error) { ... }
retryOnOutcome(r, options, out) ==
    IF out.ok
    THEN [r EXCEPT !.pc = "returned", !.result = out.value, !.calls = @ + 1]
    ELSE retryFail(r, options, out.error)

\* await sleep(delay) is over: attempt++ and the loop test
retryAfterSleep(r, options) ==
    retryLoopTest([r EXCEPT !.attempt = @ + 1], options)

\* the whole call, on an operation whose successive invocations end as script
RECURSIVE retryRun(_, _, _)
retryRun(r, options, script) ==
    IF r.pc = "sleep" THEN retryRun(retryAfterSleep(r, options), options, script)
    ELSE IF r.pc = "call" /\ script # <<>>
    THEN retryRun(retryOnOutcome(r, options, Head(script)), options, Tail(script))
    ELSE r

(***************************************************************************)
(* SpecRetry: one call of retryWithBackoff on an operation that resolves   *)
(* or rejects as it pleases                                                *)
(***************************************************************************)

\* the largest maxRetries passed explicitly
MaxRetriesBound == 4

FnValues == {"success", "other"}
FnErrors == {"Attempt failed A", "Attempt failed B"}
FnOutcomes == {Resolved(v) : v \in FnValues} \cup {Rejected(e) : e \in FnErrors}

\* options objects: every key is optional
OptionChoices(key, values) == {<<>>} \cup {[k \in {key} |-> v] : v \in values}

RetryOptions ==
    { Merge(Merge(a, b), Merge(c, d)) :
        a \in OptionChoices("maxRetries", 0..MaxRetriesBound),
        b \in OptionChoices("initialDelayMs", {10}),
        c \in OptionChoices("maxDelayMs", {25}),
        d \in OptionChoices("backoffMultiplier", {3}) }

RetryInit ==
    /\ rOptions \in RetryOptions
    /\ rState = retryStart(rOptions)
    /\ fnLog = <<>>

\* no retryWithBackoff call under observation
RetryParked ==
    /\ rOptions = <<>>
    /\ rState = retryStart(<<>>)
    /\ fnLog = <<>>

\* fn is invoked and settles
RetryInvoke ==
    /\ rState.pc = "call"
    /\ \E out \in FnOutcomes :
         /\ fnLog' = Append(fnLog, out)
         /\ rState' = retryOnOutcome(rState, rOptions, out)
    /\ UNCHANGED <<rOptions, svcVars, mwVars, bldVars, regVars, httpVars, ioVars>>

\* the timer of sleep(delay) fires
RetryWake ==
    /\ rState.pc = "sleep"
    /\ rState' = retryAfterSleep(rState, rOptions)
    /\ UNCHANGED <<rOptions, fnLog, svcVars, mwVars, bldVars, regVars, httpVars, ioVars>>

RetryNext == RetryInvoke \/ RetryWake

(***************************************************************************)
(* Claims about retryWithBackoff, checked under SpecRetry                  *)
(***************************************************************************)

AllRejected == \A i \in DOMAIN fnLog : ~fnLog[i].ok

\* C7: on an operation that fails on every call, retryWithBackoff with
\* maxRetries = n invokes it exactly n + 1 times (never more, and it does not
\* stop before), then throws the error of the last call itself; with no
\* maxRetries given that is 4 attempts.
C7_AlwaysFailingThrowsLast ==
    AllRejected =>
        /\ rState.pc \in {"call", "sleep", "thrown"}
        /\ \A n \in 0..MaxRetriesBound :
             ("maxRetries" \in DOMAIN rOptions /\ rOptions.maxRetries = n) =>
                 /\ Len(fnLog) <= n + 1
                 /\ (rState.pc = "thrown") <=> (Len(fnLog) = n + 1)
        /\ "maxRetries" \notin DOMAIN rOptions =>
                 /\ Len(fnLog) <= 4
                 /\ (rState.pc = "thrown") <=> (Len(fnLog) = 4)
        /\ rState.pc = "thrown" => rState.thrown = fnLog[Len(fnLog)].error

\* maxRetries = 2 and three failures: thrown after the third call
C7_Witness ==
    /\ "maxRetries" \in DOMAIN rOptions /\ rOptions.maxRetries = 2
    /\ AllRejected /\ Len(fnLog) = 3
    /\ fnLog[1].error # fnLog[3].error
    /\ rState.pc = "thrown" /\ rState.thrown = fnLog[3].error

\* C8: an operation that fails its first k calls (k <= maxRetries) and then
\* succeeds is invoked exactly k + 1 times and its value is returned: a
\* success is always the last invocation, the call has then returned that
\* value, and the call does not give up before maxRetries + 1 failures.
C8_SuccessAfterFailuresReturns ==
    /\ \A i \in DOMAIN fnLog :
         fnLog[i].ok =>
             /\ i = Len(fnLog)
             /\ rState.pc = "returned"
             /\ rState.result = fnLog[i].value
    /\ rState.pc = "returned" => (fnLog # <<>> /\ fnLog[Len(fnLog)].ok)
    /\ \A n \in 0..MaxRetriesBound :
         (Opt(rOptions, "maxRetries", 3) = n /\ rState.pc = "thrown") =>
             Len(fnLog) = n + 1
    /\ (rState.pc \in {"call", "sleep"}) => AllRejected

\* two failures, then a success: three calls and the value returned
C8_Witness ==
    /\ Len(fnLog) = 3
    /\ ~fnLog[1].ok /\ ~fnLog[2].ok /\ fnLog[3] = Resolved("success")
    /\ rState.pc = "returned" /\ rState.result = "success"

\* the delay the contract gives after the failed attempt with index i
ExpectedDelay(i) ==
    LET initial == Opt(rOptions, "initialDelayMs", 100)
        cap == Opt(rOptions, "maxDelayMs", 10000)
        mult == Opt(rOptions, "backoffMultiplier", 2)
        raw == initial * Pow(mult, i)
    IN  IF raw <= cap THEN raw ELSE cap

\* the failed invocations so far
NumRejected == Cardinality({i \in DOMAIN fnLog : ~fnLog[i].ok})

\* C9: the wait after the failed attempt with 0-based index i is
\* min(initialDelayMs * backoffMultiplier^i, maxDelayMs), never above
\* maxDelayMs; there is one wait per failed attempt that is followed by
\* another attempt and none after the final failed attempt.
C9_BackoffDelays ==
    /\ \A j \in DOMAIN rState.sleeps :
         /\ rState.sleeps[j] = ExpectedDelay(j - 1)
         /\ rState.sleeps[j] <= Opt(rOptions, "maxDelayMs", 10000)
    /\ Len(rState.sleeps) =
         IF rState.pc = "thrown" THEN NumRejected - 1 ELSE NumRejected

\* a capped wait (10 * 3 = 30 > 25) and no wait after the last failure
C9_Witness ==
    /\ Opt(rOptions, "initialDelayMs", 100) = 10
    /\ Opt(rOptions, "maxDelayMs", 10000) = 25
    /\ Opt(rOptions, "backoffMultiplier", 2) = 3
    /\ rState.pc = "thrown"
    /\ Len(fnLog) = 3
    /\ rState.sleeps = <<10, 25>>

(***************************************************************************)
(* The Order entity and its builder (models/entities)                      *)
(***************************************************************************)

\* reduce((sum, item) => sum + item.price * item.quantity, 0)
RECURSIVE itemsTotal(_)
itemsTotal(items) ==
    IF items = <<>> THEN 0
    ELSE itemsTotal(SubSeq(items, 1, Len(items) - 1))
         + items[Len(items)].price * items[Len(items)].quantity

\* an identifier is the serial number of the generateId() call that made it;
\* the empty string is number 0
EmptyId == 0

\* private order: Partial<Order> = { version: 1 }
NewOrderBuilder == [version |-> 1]

withOrderId(b, orderId) == Merge(b, [orderId |-> orderId])
withCustomerId(b, customerId) == Merge(b, [customerId |-> customerId])
withCustomerEmail(b, email) == Merge(b, [customerEmail |-> email])
withItems(b, items) == Merge(b, [items |-> items, totalAmount |-> itemsTotal(items)])
withStatus(b, status) == Merge(b, [status |-> status])
withShippingAddress(b, address) == Merge(b, [shippingAddress |-> address])

\* withMetadata(request.metadata): set only when not null and not undefined
withMetadata(b, request) ==
    IF "metadata" \in DOMAIN request THEN Merge(b, [metadata |-> request.metadata]) ELSE b

\* new Error(message)
Error(text) == [name |-> "Error", message |-> [text |-> text]]

\* a variant of build() that checks the customer email before the customer id
OrderBuilder_buildEmailFirst(b, now) ==
    IF "orderId" \notin DOMAIN b \/ b.orderId = EmptyId
    THEN [ok |-> FALSE, error |-> Error("Order ID is required")]
    ELSE IF "customerEmail" \notin DOMAIN b \/ b.customerEmail = ""
    THEN [ok |-> FALSE, error |-> Error("Customer email is required")]
    ELSE IF "customerId" \notin DOMAIN b \/ b.customerId = ""
    THEN [ok |-> FALSE, error |-> Error("Customer ID is required")]
    ELSE IF "items" \notin DOMAIN b \/ Len(b.items) = 0
    THEN [ok |-> FALSE, error |-> Error("Order must have at least one item")]
    ELSE IF "shippingAddress" \notin DOMAIN b
    THEN [ok |-> FALSE, error |-> Error("Shipping address is required")]
    ELSE [ok |-> TRUE,
          order |-> Merge(b, [status |-> IF "status" \in DOMAIN b THEN b.status
                                         ELSE "PENDING",
                              createdAt |-> now,
                              updatedAt |-> now,
                              version |-> 1])]

\* a variant of build() that stamps PENDING over a status that was set
OrderBuilder_buildAlwaysPending(b, now) ==
    IF "orderId" \notin DOMAIN b \/ b.orderId = EmptyId
    THEN [ok |-> FALSE, error |-> Error("Order ID is required")]
    ELSE IF "customerId" \notin DOMAIN b \/ b.customerId = ""
    THEN [ok |-> FALSE, error |-> Error("Customer ID is required")]
    ELSE IF "customerEmail" \notin DOMAIN b \/ b.customerEmail = ""
    THEN [ok |-> FALSE, error |-> Error("Customer email is required")]
    ELSE IF "items" \notin DOMAIN b \/ Len(b.items) = 0
    THEN [ok |-> FALSE, error |-> Error("Order must have at least one item")]
    ELSE IF "shippingAddress" \notin DOMAIN b
    THEN [ok |-> FALSE, error |-> Error("Shipping address is required")]
    ELSE [ok |-> TRUE,
          order |-> Merge(b, [status |-> "PENDING",
                              createdAt |-> now,
                              updatedAt |-> now,
                              version |-> 1])]

\* build(): the five checks in their order, then the stamped order
OrderBuilder_build(b, now) ==
    IF "orderId" \notin DOMAIN b \/ b.orderId = EmptyId
    THEN [ok |-> FALSE, error |-> Error("Order ID is required")]
    ELSE IF "customerId" \notin DOMAIN b \/ b.customerId = ""
    THEN [ok |-> FALSE, error |-> Error("Customer ID is required")]
    ELSE IF "customerEmail" \notin DOMAIN b \/ b.customerEmail = ""
    THEN [ok |-> FALSE, error |-> Error("Customer email is required")]
    ELSE IF "items" \notin DOMAIN b \/ Len(b.items) = 0
    THEN [ok |-> FALSE, error |-> Error("Order must have at least one item")]
    ELSE IF "shippingAddress" \notin DOMAIN b
    THEN [ok |-> FALSE, error |-> Error("Shipping address is required")]
    ELSE [ok |-> TRUE,
          order |-> Merge(b, [status |-> IF "status" \in DOMAIN b THEN b.status
                                         ELSE "PENDING",
                              createdAt |-> now,
                              updatedAt |-> now,
                              version |-> 1])]

(***************************************************************************)
(* The document store behind DynamoDBRepository (utils/dynamodb-repository)*)
(***************************************************************************)

\* GetCommand: the item under the key, or no Item
storeGet(st, id) == IF id \in DOMAIN st THEN st[id] ELSE <<>>

\* PutCommand: the item replaces whatever is under its key
storePut(st, item) ==
    [k \in (DOMAIN st) \cup {item.orderId} |-> IF k = item.orderId THEN item ELSE st[k]]

\* a variant of storeUpdate with a condition on the version: an item whose
\* version is not the one the updates were built from is left as it is
storeUpdateIfCurrent(st, id, updates) ==
    IF id \in DOMAIN st /\ "version" \in DOMAIN updates
    THEN IF st[id].version + 1 = updates.version
         THEN [st EXCEPT ![id] = Merge(@, updates)]
         ELSE st
    ELSE [k \in (DOMAIN st) \cup {id} |->
            IF k = id THEN Merge(IF id \in DOMAIN st THEN st[id] ELSE [orderId |-> id], updates)
            ELSE st[k]]

\* UpdateCommand with SET #attr_i = :val_i for every entry of updates and
\* ReturnValues ALL_NEW: the attributes are written onto the item under the
\* key, which is created holding only its key when it is absent
storeUpdate(st, id, updates) ==
    LET old == IF id \in DOMAIN st THEN st[id] ELSE [orderId |-> id]
    IN  [k \in (DOMAIN st) \cup {id} |-> IF k = id THEN Merge(old, updates) ELSE st[k]]

\* DeleteCommand: nothing is left under the key
storeDelete(st, id) == [k \in (DOMAIN st) \ {id} |-> st[k]]

\* an error of the store's client
StoreUnavailable == [name |-> "ServiceUnavailable", message |-> [text |-> "store call failed"]]

\* retryWithBackoff(..., { logger }): the defaults
RepositoryRetryOptions == <<>>

\* the run of retryWithBackoff around one store command whose attempts end as script
repositoryRetry(script) ==
    retryRun(retryStart(RepositoryRetryOptions), RepositoryRetryOptions, script)

\* findById: result.Item or null (here <<>>)
repository_findById(st, id, script) ==
    LET r == repositoryRetry(script)
    IN  IF r.pc = "returned"
        THEN [ok |-> TRUE, value |-> storeGet(st, id), store |-> st]
        ELSE [ok |-> FALSE, error |-> r.thrown, store |-> st]

\* save: the entity as given
repository_save(st, entity, script) ==
    LET r == repositoryRetry(script)
    IN  IF r.pc = "returned"
        THEN [ok |-> TRUE, value |-> entity, store |-> storePut(st, entity)]
        ELSE [ok |-> FALSE, error |-> r.thrown, store |-> st]

\* update: result.Attributes, the item after the update
repository_update(st, id, updates, script) ==
    LET r == repositoryRetry(script)
    IN  IF r.pc = "returned"
        THEN [ok |-> TRUE, value |-> storeUpdate(st, id, updates)[id],
              store |-> storeUpdate(st, id, updates)]
        ELSE [ok |-> FALSE, error |-> r.thrown, store |-> st]

\* delete
repository_delete(st, id, script) ==
    LET r == repositoryRetry(script)
    IN  IF r.pc = "returned"
        THEN [ok |-> TRUE, value |-> <<>>, store |-> storeDelete(st, id)]
        ELSE [ok |-> FALSE, error |-> r.thrown, store |-> st]

(***************************************************************************)
(* EventPublisher.publish (services/event-publisher)                       *)
(***************************************************************************)

\* JSON.stringify(event.payload): a key whose value is undefined is left out
JSONStringify(payload) ==
    IF "reason" \in DOMAIN payload /\ payload.reason = Undefined
    THEN [k \in (DOMAIN payload) \ {"reason"} |-> payload[k]]
    ELSE payload

\* the entry of the PutEventsCommand
putEventsEntry(event) ==
    [Source |-> "order-service",
     DetailType |-> event.type,
     Detail |-> JSONStringify(event.payload),
     EventBusName |-> "event-bus"]

\* retryWithBackoff(..., { logger, maxRetries: 3 })
PublisherRetryOptions == [maxRetries |-> 3]

\* the error of an attempt whose response has FailedEntryCount > 0
PublishFailed == [name |-> "Error", message |-> [text |-> "Failed to publish event: "]]

\* an error of the bus client
BusUnavailable == [name |-> "ServiceUnavailable", message |-> [text |-> "bus call failed"]]

\* a variant of publish whose catch block does not rethrow
publisher_publishSwallows(b, event, script) ==
    LET r == retryRun(retryStart(PublisherRetryOptions), PublisherRetryOptions, script)
    IN  IF r.pc = "returned"
        THEN [ok |-> TRUE, bus |-> b (+) SetToBag({putEventsEntry(event)})]
        ELSE [ok |-> TRUE, bus |-> b]

\* publish(event): the entry is on the bus once an attempt reported no failed entry
publisher_publish(b, event, script) ==
    LET r == retryRun(retryStart(PublisherRetryOptions), PublisherRetryOptions, script)
    IN  IF r.pc = "returned"
        THEN [ok |-> TRUE, bus |-> b (+) SetToBag({putEventsEntry(event)})]
        ELSE [ok |-> FALSE, error |-> r.thrown, bus |-> b]

(***************************************************************************)
(* OrderService (services/order-service)                                   *)
(***************************************************************************)

\* the locals of a service invocation that has not started
NewCall ==
    [op |-> "none", pc |-> "idle", req |-> <<>>,
     existing |-> <<>>,      \* existingOrder, as findById returned it
     order |-> <<>>,         \* savedOrder / updatedOrder
     updates |-> <<>>,       \* the partial map built by updateOrder
     event |-> <<>>,         \* the event handed to eventPublisher.publish
     result |-> <<>>,        \* the value the call resolved with
     error |-> <<>>,         \* the error the call rejected with
     log |-> <<>>,           \* the repository and publisher methods called, in order
     absentAtRead |-> FALSE, \* history: findById read the table and the key was absent
     stored |-> <<>>,        \* history: the item in the store right after save
     applied |-> <<>>]       \* history: the map the store's update applied

\* the call rejects: catch (error) { log; throw error }
Rejects(c, error) == [c EXCEPT !.pc = "failed", !.error = error]

\* new Error(`Order not found: ${orderId}`)
NotFoundError(orderId) ==
    [name |-> "Error", message |-> [text |-> "Order not found: ", arg |-> orderId]]

\* a variant of the ORDER_CREATED event that does not carry the order's total
orderCreatedEventNoTotal(savedOrder) ==
    [type |-> "ORDER_CREATED",
     payload |-> [orderId |-> savedOrder.orderId,
                  customerId |-> savedOrder.customerId,
                  items |-> savedOrder.items,
                  totalAmount |-> 0,
                  createdAt |-> savedOrder.createdAt]]

\* the ORDER_CREATED event of createOrder
orderCreatedEvent(savedOrder) ==
    [type |-> "ORDER_CREATED",
     payload |-> [orderId |-> savedOrder.orderId,
                  customerId |-> savedOrder.customerId,
                  items |-> savedOrder.items,
                  totalAmount |-> savedOrder.totalAmount,
                  createdAt |-> savedOrder.createdAt]]

\* the ORDER_UPDATED event of updateOrder
orderUpdatedEvent(updatedOrder, updates) ==
    [type |-> "ORDER_UPDATED",
     payload |-> [orderId |-> updatedOrder.orderId,
                  updates |-> updates,
                  updatedAt |-> updatedOrder.updatedAt]]

\* the ORDER_DELETED event of deleteOrder
orderDeletedEvent(orderId, now, reason) ==
    [type |-> "ORDER_DELETED",
     payload |-> [orderId |-> orderId, deletedAt |-> now, reason |-> reason]]

\* createOrder up to its first await: the builder chain, then repository.save
createOrder_begin(request, id, now) ==
    LET built == OrderBuilder_build(
                     withMetadata(
                         withShippingAddress(
                             withItems(
                                 withCustomerEmail(
                                     withCustomerId(withOrderId(NewOrderBuilder, id),
                                                    request.customerId),
                                     request.customerEmail),
                                 request.items),
                             request.shippingAddress),
                         request),
                     now)
        c == [NewCall EXCEPT !.op = "createOrder", !.req = request]
    IN  IF built.ok
        THEN [c EXCEPT !.pc = "save", !.order = built.order, !.log = <<"save">>]
        ELSE Rejects(c, built.error)

\* a variant that goes on to publish whatever repository.save did
createOrder_afterSaveAnyway(c, res) ==
    [c EXCEPT !.pc = "publish",
              !.event = orderCreatedEvent(c.order),
              !.log = Append(@, "publish")]

\* createOrder after await repository.save(order)
createOrder_afterSave(c, res) ==
    IF res.ok
    THEN [c EXCEPT !.pc = "publish",
                   !.order = res.value,
                   !.event = orderCreatedEvent(res.value),
                   !.log = Append(@, "publish")]
    ELSE Rejects(c, res.error)

\* createOrder after await eventPublisher.publish(...): return savedOrder
createOrder_afterPublish(c, res) ==
    IF res.ok
    THEN [c EXCEPT !.pc = "done", !.result = c.order]
    ELSE Rejects(c, res.error)

\* a variant that writes the items without recomputing the total
itemsUpdatesNoTotal(request) ==
    IF "items" \in DOMAIN request THEN [items |-> request.items] ELSE <<>>

\* a variant that takes an empty array for a field that was not supplied
itemsUpdatesNonEmpty(request) ==
    IF "items" \in DOMAIN request /\ request.items # <<>>
    THEN [items |-> request.items, totalAmount |-> itemsTotal(request.items)]
    ELSE <<>>

\* request.items && {...}: an array, even an empty one, is truthy
itemsUpdates(request) ==
    IF "items" \in DOMAIN request
    THEN [items |-> request.items, totalAmount |-> itemsTotal(request.items)]
    ELSE <<>>

\* request.status && {...}: a string is truthy unless it is empty
statusUpdates(request) ==
    IF "status" \in DOMAIN request /\ request.status # ""
    THEN [status |-> request.status]
    ELSE <<>>

\* request.shippingAddress && {...}: an object is truthy
shippingAddressUpdates(request) ==
    IF "shippingAddress" \in DOMAIN request
    THEN [shippingAddress |-> request.shippingAddress]
    ELSE <<>>

\* const updates: Partial<Order> = { updatedAt, version, ...items, ...status, ...address }
\* a variant that spreads the whole request into the updates
updateOrder_buildUpdatesSpread(existingOrder, request, now) ==
    Merge([updatedAt |-> now, version |-> existingOrder.version + 1],
          [k \in (DOMAIN request) \ {"orderId"} |-> request[k]])

updateOrder_buildUpdates(existingOrder, request, now) ==
    Merge(Merge(Merge([updatedAt |-> now, version |-> existingOrder.version + 1],
                      itemsUpdates(request)),
                statusUpdates(request)),
          shippingAddressUpdates(request))

\* a variant without the existence check: an absent order is updated as if it
\* had been read at version 0
updateOrder_afterFindNoCheck(c, res, now) ==
    IF ~res.ok THEN Rejects(c, res.error)
    ELSE LET existingOrder == IF res.value = <<>> THEN [version |-> 0] ELSE res.value
         IN  [c EXCEPT !.pc = "update",
                       !.existing = existingOrder,
                       !.updates = updateOrder_buildUpdates(existingOrder, c.req, now),
                       !.log = Append(@, "update")]

\* updateOrder after await repository.findById(request.orderId)
updateOrder_afterFind(c, res, now) ==
    IF ~res.ok THEN Rejects(c, res.error)
    ELSE IF res.value = <<>> THEN Rejects(c, NotFoundError(c.req.orderId))
    ELSE [c EXCEPT !.pc = "update",
                   !.existing = res.value,
                   !.updates = updateOrder_buildUpdates(res.value, c.req, now),
                   !.log = Append(@, "update")]

\* updateOrder after await repository.update(request.orderId, updates)
updateOrder_afterUpdate(c, res) ==
    IF res.ok
    THEN [c EXCEPT !.pc = "publish",
                   !.order = res.value,
                   !.event = orderUpdatedEvent(res.value, c.updates),
                   !.log = Append(@, "publish")]
    ELSE Rejects(c, res.error)

\* updateOrder after await eventPublisher.publish(...): return updatedOrder
updateOrder_afterPublish(c, res) ==
    IF res.ok
    THEN [c EXCEPT !.pc = "done", !.result = c.order]
    ELSE Rejects(c, res.error)

\* a variant without the existence check
deleteOrder_afterFindNoCheck(c, res) ==
    IF ~res.ok THEN Rejects(c, res.error)
    ELSE [c EXCEPT !.pc = "delete", !.existing = res.value, !.log = Append(@, "delete")]

\* deleteOrder after await repository.findById(orderId)
deleteOrder_afterFind(c, res) ==
    IF ~res.ok THEN Rejects(c, res.error)
    ELSE IF res.value = <<>> THEN Rejects(c, NotFoundError(c.req.orderId))
    ELSE [c EXCEPT !.pc = "delete", !.existing = res.value, !.log = Append(@, "delete")]

\* deleteOrder after await repository.delete(orderId)
deleteOrder_afterDelete(c, res, now) ==
    IF res.ok
    THEN [c EXCEPT !.pc = "publish",
                   !.event = orderDeletedEvent(c.req.orderId, now, c.req.reason),
                   !.log = Append(@, "publish")]
    ELSE Rejects(c, res.error)

\* deleteOrder after await eventPublisher.publish(...)
deleteOrder_afterPublish(c, res) ==
    IF res.ok THEN [c EXCEPT !.pc = "done"] ELSE Rejects(c, res.error)

(***************************************************************************)
(* Spec: service invocations running concurrently over one store and bus   *)
(***************************************************************************)

\* the service invocations of a run
MaxCalls == 2
\* the identifiers generateId may produce in a run
MaxOrders == 1
\* the instants after the first that the clock may reach
MaxClock == 1

\* the identifier generateId produced before the run, for the order the table
\* may already hold
FirstId == 1

Calls == 1..MaxCalls
OrderIds == FirstId..(FirstId + MaxOrders)

\* the instants new Date() may return when the last one read was clock
Instants == clock..MaxClock

ItemsA == <<[productId |-> "prod-1", name |-> "Product 1", quantity |-> 2, price |-> 10]>>
ItemsB == <<[productId |-> "prod-1", name |-> "Product 1", quantity |-> 2, price |-> 10],
            [productId |-> "prod-2", name |-> "Product 2", quantity |-> 1, price |-> 15]>>
ItemsC == <<[productId |-> "prod-3", name |-> "Product 3", quantity |-> 3, price |-> 7]>>

AddressA == [street |-> "123 Main St", city |-> "Boston", state |-> "MA",
             zipCode |-> "02101", country |-> "US"]
AddressB == [street |-> "1 Elm St", city |-> "Salem", state |-> "MA",
             zipCode |-> "01970", country |-> "US"]

\* CreateOrderRequest values (createOrderSchema): items is not empty, metadata is optional
CreateRequests ==
    { [customerId |-> "customer-123", customerEmail |-> "test@example.com",
       items |-> ItemsA, shippingAddress |-> AddressA],
      [customerId |-> "customer-456", customerEmail |-> "other@example.com",
       items |-> ItemsB, shippingAddress |-> AddressA,
       metadata |-> [channel |-> "web"]] }

\* UpdateOrderRequest values (updateOrderSchema) without their orderId: items,
\* status and shippingAddress are optional, items may be empty
UpdatePatches ==
    { [status |-> "PROCESSING"],
      [items |-> ItemsC],
      [items |-> <<>>, shippingAddress |-> AddressB],
      [items |-> ItemsC, status |-> "SHIPPED", shippingAddress |-> AddressB],
      [status |-> "CANCELLED", customerId |-> "customer-999", createdAt |-> 1] }

UpdateRequests ==
    { Merge([orderId |-> id], patch) : id \in OrderIds, patch \in UpdatePatches }
    \cup { [orderId |-> id] : id \in OrderIds }

\* deleteOrder(orderId, reason?)
DeleteRequests ==
    { [orderId |-> id, reason |-> r] :
        id \in OrderIds, r \in {Undefined, "Customer requested"} }

\* the attempts of one store or bus command: k failures with err, then a success
\* if an attempt is left for it
AttemptScript(k, err, options) ==
    [i \in 1..k |-> Rejected(err)]
    \o (IF k <= maxRetriesOf(options) THEN <<Resolved("response")>> ELSE <<>>)

FailureCounts(options) == 0..(maxRetriesOf(options) + 1)

\* the order an earlier createOrder(request) built and saved under FirstId
EarlierOrder(request) == createOrder_begin(request, FirstId, 0).order

\* the table is empty or holds one order that an earlier createOrder saved
SvcInit ==
    /\ store \in {<<>>} \cup {storePut(<<>>, EarlierOrder(request)) : request \in CreateRequests}
    /\ bus = EmptyBag
    /\ clock = 0
    /\ idsIssued = FirstId
    /\ call = [p \in Calls |-> NewCall]

\* the call has resolved or rejected and still holds its locals
Settled(c) == c.pc \in {"done", "failed"}

\* a settled call returns to its caller before anything else runs
NoneSettled == \A q \in Calls : ~Settled(call[q])

\* what is kept of a call that has returned: the operation, the order it was
\* about and whether it resolved
Returned(c) ==
    [NewCall EXCEPT !.op = c.op,
                    !.pc = IF c.pc = "done" THEN "resolved" ELSE "rejected",
                    !.req = [orderId |-> IF c.op = "createOrder"
                                         THEN c.order.orderId
                                         ELSE c.req.orderId]]

\* invocations are numbered in the order they arrive
CanStart(p) ==
    /\ NoneSettled
    /\ call[p].pc = "idle"
    /\ IF p = 1 THEN TRUE ELSE call[p - 1].pc # "idle"

\* the promise of a settled call is delivered and its locals are dropped
Return(p) ==
    /\ Settled(call[p])
    /\ call' = [call EXCEPT ![p] = Returned(@)]
    /\ UNCHANGED <<store, bus, clock, idsIssued, retryVars, ioVars, mwVars, bldVars, regVars, httpVars>>

\* createOrder(request) runs to its await of repository.save
CreateOrder_Start(p) ==
    /\ CanStart(p)
    /\ idsIssued < FirstId + MaxOrders
    /\ \E request \in CreateRequests, now \in Instants :
         /\ call' = [call EXCEPT ![p] = createOrder_begin(request, idsIssued + 1, now)]
         /\ clock' = now
    /\ idsIssued' = idsIssued + 1
    /\ UNCHANGED <<store, bus, retryVars, ioVars, mwVars, bldVars, regVars, httpVars>>

\* repository.save settles and createOrder goes on to publish
CreateOrder_Save(p) ==
    /\ NoneSettled
    /\ call[p].op = "createOrder" /\ call[p].pc = "save"
    /\ \E k \in FailureCounts(RepositoryRetryOptions) :
         LET res == repository_save(store, call[p].order,
                        AttemptScript(k, StoreUnavailable, RepositoryRetryOptions))
         IN  /\ store' = res.store
             /\ call' = [call EXCEPT ![p] =
                    [createOrder_afterSave(@, res) EXCEPT
                        !.stored = IF res.ok THEN storeGet(res.store, call[p].order.orderId)
                                   ELSE <<>>]]
    /\ UNCHANGED <<bus, clock, idsIssued, retryVars, ioVars, mwVars, bldVars, regVars, httpVars>>

\* eventPublisher.publish settles and createOrder returns or rejects
CreateOrder_Publish(p) ==
    /\ NoneSettled
    /\ call[p].op = "createOrder" /\ call[p].pc = "publish"
    /\ \E k \in FailureCounts(PublisherRetryOptions), err \in {PublishFailed, BusUnavailable} :
         LET res == publisher_publish(bus, call[p].event,
                        AttemptScript(k, err, PublisherRetryOptions))
         IN  /\ bus' = res.bus
             /\ call' = [call EXCEPT ![p] = createOrder_afterPublish(@, res)]
    /\ UNCHANGED <<store, clock, idsIssued, retryVars, ioVars, mwVars, bldVars, regVars, httpVars>>

\* updateOrder(request) runs through repository.findById to its await of
\* repository.update, or rejects
UpdateOrder_Start(p) ==
    /\ CanStart(p)
    /\ \E request \in UpdateRequests, k \in FailureCounts(RepositoryRetryOptions),
          now \in Instants :
         LET res == repository_findById(store, request.orderId,
                        AttemptScript(k, StoreUnavailable, RepositoryRetryOptions))
             c == [NewCall EXCEPT !.op = "updateOrder", !.req = request,
                                  !.log = <<"findById">>,
                                  !.absentAtRead = res.ok /\ request.orderId \notin DOMAIN store]
         IN  /\ call' = [call EXCEPT ![p] = updateOrder_afterFind(c, res, now)]
             /\ clock' = now
    /\ UNCHANGED <<store, bus, idsIssued, retryVars, ioVars, mwVars, bldVars, regVars, httpVars>>

\* repository.update settles and updateOrder goes on to publish
UpdateOrder_Update(p) ==
    /\ NoneSettled
    /\ call[p].op = "updateOrder" /\ call[p].pc = "update"
    /\ \E k \in FailureCounts(RepositoryRetryOptions) :
         LET res == repository_update(store, call[p].req.orderId, call[p].updates,
                        AttemptScript(k, StoreUnavailable, RepositoryRetryOptions))
         IN  /\ store' = res.store
             /\ call' = [call EXCEPT ![p] =
                    [updateOrder_afterUpdate(@, res) EXCEPT
                        !.applied = IF res.ok THEN call[p].updates ELSE <<>>]]
    /\ UNCHANGED <<bus, clock, idsIssued, retryVars, ioVars, mwVars, bldVars, regVars, httpVars>>

\* eventPublisher.publish settles and updateOrder returns or rejects
UpdateOrder_Publish(p) ==
    /\ NoneSettled
    /\ call[p].op = "updateOrder" /\ call[p].pc = "publish"
    /\ \E k \in FailureCounts(PublisherRetryOptions), err \in {PublishFailed, BusUnavailable} :
         LET res == publisher_publish(bus, call[p].event,
                        AttemptScript(k, err, PublisherRetryOptions))
         IN  /\ bus' = res.bus
             /\ call' = [call EXCEPT ![p] = updateOrder_afterPublish(@, res)]
    /\ UNCHANGED <<store, clock, idsIssued, retryVars, ioVars, mwVars, bldVars, regVars, httpVars>>

\* deleteOrder(orderId, reason) runs through repository.findById to its await
\* of repository.delete, or rejects
DeleteOrder_Start(p) ==
    /\ CanStart(p)
    /\ \E request \in DeleteRequests, k \in FailureCounts(RepositoryRetryOptions) :
         LET res == repository_findById(store, request.orderId,
                        AttemptScript(k, StoreUnavailable, RepositoryRetryOptions))
             c == [NewCall EXCEPT !.op = "deleteOrder", !.req = request,
                                  !.log = <<"findById">>,
                                  !.absentAtRead = res.ok /\ request.orderId \notin DOMAIN store]
         IN  call' = [call EXCEPT ![p] = deleteOrder_afterFind(c, res)]
    /\ UNCHANGED <<store, bus, clock, idsIssued, retryVars, ioVars, mwVars, bldVars, regVars, httpVars>>

\* repository.delete settles and deleteOrder goes on to publish
DeleteOrder_Delete(p) ==
    /\ NoneSettled
    /\ call[p].op = "deleteOrder" /\ call[p].pc = "delete"
    /\ \E k \in FailureCounts(RepositoryRetryOptions), now \in Instants :
         LET res == repository_delete(store, call[p].req.orderId,
                        AttemptScript(k, StoreUnavailable, RepositoryRetryOptions))
         IN  /\ store' = res.store
             /\ call' = [call EXCEPT ![p] = deleteOrder_afterDelete(@, res, now)]
             /\ clock' = now
    /\ UNCHANGED <<bus, idsIssued, retryVars, ioVars, mwVars, bldVars, regVars, httpVars>>

\* eventPublisher.publish settles and deleteOrder returns or rejects
DeleteOrder_Publish(p) ==
    /\ NoneSettled
    /\ call[p].op = "deleteOrder" /\ call[p].pc = "publish"
    /\ \E k \in FailureCounts(PublisherRetryOptions), err \in {PublishFailed, BusUnavailable} :
         LET res == publisher_publish(bus, call[p].event,
                        AttemptScript(k, err, PublisherRetryOptions))
         IN  /\ bus' = res.bus
             /\ call' = [call EXCEPT ![p] = deleteOrder_afterPublish(@, res)]
    /\ UNCHANGED <<store, clock, idsIssued, retryVars, ioVars, mwVars, bldVars, regVars, httpVars>>

CreateNext == \E p \in Calls : CreateOrder_Start(p) \/ CreateOrder_Save(p) \/ CreateOrder_Publish(p)
UpdateNext == \E p \in Calls : UpdateOrder_Start(p) \/ UpdateOrder_Update(p) \/ UpdateOrder_Publish(p)
DeleteNext == \E p \in Calls : DeleteOrder_Start(p) \/ DeleteOrder_Delete(p) \/ DeleteOrder_Publish(p)

ReturnNext == \E p \in Calls : Return(p)

NextCU == CreateNext \/ UpdateNext \/ ReturnNext
Next == CreateNext \/ UpdateNext \/ DeleteNext \/ ReturnNext


\* no service invocation under observation: the table is empty
SvcParked ==
    /\ store = <<>>
    /\ bus = EmptyBag
    /\ clock = 0
    /\ idsIssued = FirstId
    /\ call = [p \in Calls |-> NewCall]

(***************************************************************************)
(* The request pipeline (middleware/lambda-middleware) and the Logger      *)
(***************************************************************************)

\* error instanceof Error
isError(v) == "name" \in DOMAIN v

\* error instanceof ZodError
isZodError(v) == IF isError(v) THEN v.name = "ZodError" ELSE FALSE

\* whether JSON.stringify accepts the value: it throws a TypeError on a BigInt
\* and on an object that refers to itself
JSONSerializable(v) ==
    IF "typeof" \in DOMAIN v THEN v.typeof # "bigint" /\ ~v.circular ELSE TRUE

\* the TypeError of JSON.stringify
NotSerializable(v) ==
    [name |-> "TypeError",
     message |-> [text |-> IF v.typeof = "bigint"
                           THEN "Do not know how to serialize a BigInt"
                           ELSE "Converting circular structure to JSON"]]

\* Logger.log: console.log(JSON.stringify(logEntry)), the entry's data spread
\* into it
Logger_log(console, level, context, message, data) ==
    IF \A k \in DOMAIN data : JSONSerializable(data[k])
    THEN [ok |-> TRUE,
          console |-> Append(console, [level |-> level, context |-> context,
                                       message |-> message])]
    ELSE [ok |-> FALSE,
          thrown |-> NotSerializable(data[CHOOSE k \in DOMAIN data :
                                              ~JSONSerializable(data[k])]),
          console |-> console]

\* Logger.error(message, error): an Error is logged by its message and stack,
\* any other value as it is
Logger_error(console, context, message, error) ==
    Logger_log(console, "ERROR", context, message,
               IF isError(error)
               THEN [error |-> error.message, stack |-> [text |-> "stack"]]
               ELSE [error |-> error])

\* Logger.warn(message, data)
Logger_warn(console, context, message, data) ==
    Logger_log(console, "WARN", context, message, data)

\* Logger.info(message, data)
Logger_info(console, context, message, data) ==
    Logger_log(console, "INFO", context, message, data)

\* corsHeaders()
corsHeaders ==
    [h \in {"Access-Control-Allow-Origin", "Access-Control-Allow-Headers",
            "Access-Control-Allow-Methods", "Content-Type"} |->
        CASE h = "Access-Control-Allow-Origin" -> "*"
          [] h = "Access-Control-Allow-Headers" ->
                 "Content-Type,X-Amz-Date,Authorization,X-Api-Key,X-Amz-Security-Token"
          [] h = "Access-Control-Allow-Methods" -> "GET,POST,PUT,DELETE,OPTIONS"
          [] OTHER -> "application/json"]

\* errorResponse(error, code)
errorResponse(error, code) == [success |-> FALSE, error |-> error, code |-> code]

\* the response errorHandlerMiddleware builds for what it caught
errorHandler_response(error) ==
    IF isZodError(error)
    THEN [statusCode |-> 400,
          headers |-> corsHeaders,
          body |-> errorResponse([message |-> [text |-> "Validation error"],
                                  details |-> error.errors],
                                 "VALIDATION_ERROR")]
    ELSE IF isError(error)
    THEN [statusCode |-> 500,
          headers |-> corsHeaders,
          body |-> errorResponse([message |-> error.message], "INTERNAL_ERROR")]
    ELSE [statusCode |-> 500,
          headers |-> corsHeaders,
          body |-> errorResponse([message |-> [text |-> "Internal server error"]],
                                 "INTERNAL_ERROR")]

\* the catch block of errorHandlerMiddleware: logger.error(...), then the
\* response; what logger.error throws leaves the block
errorHandler_catch(console, error) ==
    LET logged == Logger_error(console, "ErrorHandler",
                               "Unhandled error in Lambda function", error)
    IN  IF logged.ok
        THEN [threw |-> FALSE, value |-> errorHandler_response(error),
              console |-> logged.console]
        ELSE [threw |-> TRUE, value |-> logged.thrown, console |-> logged.console]

\* the catch block of validationMiddleware: logger.warn(..., { error }); throw error
validation_catch(console, error) ==
    LET logged == Logger_warn(console, "Validation", "Request validation failed",
                              [error |-> error])
    IN  IF logged.ok
        THEN [value |-> error, console |-> logged.console]
        ELSE [value |-> logged.thrown, console |-> logged.console]

\* a variant of corsMiddleware that passes the response on as it is
cors_overlayNone(result) == result

\* corsMiddleware: { ...result, headers: { ...result.headers, ...corsHeaders() } }
cors_overlay(result) == Merge(result, [headers |-> Merge(result.headers, corsHeaders)])

(***************************************************************************)
(* SpecMw: one request through withMiddleware(handler, ...middlewares)     *)
(***************************************************************************)

\* the middleware lists of the order handlers, and the error boundary alone
Chains ==
    { <<"errorHandler">>,
      <<"errorHandler", "logging", "cors">>,
      <<"errorHandler", "logging", "cors", "validation">> }

\* event.body: JSON that satisfies the schema, JSON that violates it, or text
\* that is not JSON
Bodies == {"valid", "invalid", "malformed"}

\* the error schema.parse throws
ZodError == [name |-> "ZodError", message |-> [text |-> "invalid input"],
             errors |-> <<[path |-> "customerEmail", message |-> "Invalid email"]>>]

\* the error JSON.parse throws
SyntaxError == [name |-> "SyntaxError", message |-> [text |-> "Unexpected token"]]

\* values that are not Errors: a string, undefined, a plain object, a BigInt,
\* an object that refers to itself
NonErrors ==
    { [typeof |-> "string", circular |-> FALSE],
      [typeof |-> "undefined", circular |-> FALSE],
      [typeof |-> "object", circular |-> FALSE],
      [typeof |-> "bigint", circular |-> FALSE],
      [typeof |-> "object", circular |-> TRUE] }

\* the responses the inner handler may return
HandlerResponses ==
    { [statusCode |-> 200, headers |-> corsHeaders, body |-> [success |-> TRUE]],
      [statusCode |-> 404, headers |-> corsHeaders,
       body |-> errorResponse([message |-> [text |-> "Order not found"]], "NOT_FOUND")],
      [statusCode |-> 200, headers |-> <<>>, body |-> [success |-> TRUE]] }

\* a request that has not arrived
NewRequest ==
    [pc |-> "idle",
     chain |-> <<>>,        \* the middlewares given to withMiddleware
     body |-> "none",       \* event.body
     index |-> 0,           \* composeMiddleware's index
     depth |-> 0,           \* the middlewares awaiting their next()
     value |-> <<>>,        \* the response being returned or the value being thrown
     validated |-> FALSE,   \* event.validatedBody is attached
     console |-> <<>>,      \* the lines written by console.log
     handlerCalls |-> 0,    \* history: the invocations of the inner handler
     trace |-> <<>>,        \* history: the middlewares and the handler, as they are
                            \* entered and left
     boundary |-> <<>>]     \* history: what the error boundary caught and did

MwInit == mw = NewRequest

\* a variant of compose_pick that takes the middlewares from the last to the first
compose_pickFromLast(middlewares, index) == middlewares[Len(middlewares) - index]

\* const middleware = middlewares[index++]
compose_pick(middlewares, index) == middlewares[index + 1]

\* one entry of the trace
Entered(name) == [at |-> "enter", of |-> name]
Left(name) == [at |-> "exit", of |-> name]

\* next() in composeMiddleware picks a middleware
EntersMiddleware(name) ==
    /\ mw.pc = "next"
    /\ mw.index < Len(mw.chain)
    /\ compose_pick(mw.chain, mw.index) = name

\* a settled next() reaches the middleware that awaits it
ReachesMiddleware(name) ==
    /\ mw.pc \in {"returning", "throwing"}
    /\ mw.depth > 0
    /\ mw.chain[mw.depth] = name

\* the handler made by withMiddleware is invoked: composed(event, context, ...)
Mw_Invoke ==
    /\ mw.pc = "idle"
    /\ \E chain \in Chains, body \in Bodies :
         mw' = [mw EXCEPT !.pc = "next", !.chain = chain, !.body = body]
    /\ UNCHANGED <<retryVars, ioVars, svcVars, bldVars, regVars, httpVars>>

\* errorHandlerMiddleware up to await next()
Mw_EnterErrorHandler ==
    /\ EntersMiddleware("errorHandler")
    /\ mw' = [mw EXCEPT !.index = @ + 1, !.depth = @ + 1,
                        !.trace = Append(@, Entered("errorHandler"))]
    /\ UNCHANGED <<retryVars, ioVars, svcVars, bldVars, regVars, httpVars>>

\* loggingMiddleware up to await next()
Mw_EnterLogging ==
    /\ EntersMiddleware("logging")
    /\ mw' = [mw EXCEPT !.index = @ + 1, !.depth = @ + 1,
                        !.trace = Append(@, Entered("logging")),
                        !.console = Logger_info(@, "Lambda", "Request received",
                                                <<>>).console]
    /\ UNCHANGED <<retryVars, ioVars, svcVars, bldVars, regVars, httpVars>>

\* corsMiddleware up to await next()
Mw_EnterCors ==
    /\ EntersMiddleware("cors")
    /\ mw' = [mw EXCEPT !.index = @ + 1, !.depth = @ + 1,
                        !.trace = Append(@, Entered("cors"))]
    /\ UNCHANGED <<retryVars, ioVars, svcVars, bldVars, regVars, httpVars>>

\* validationMiddleware up to await next(), or to its throw when JSON.parse or
\* schema.parse throws
Mw_EnterValidation ==
    /\ EntersMiddleware("validation")
    /\ IF mw.body = "valid"
       THEN mw' = [mw EXCEPT !.index = @ + 1, !.depth = @ + 1, !.validated = TRUE,
                             !.trace = Append(@, Entered("validation"))]
       ELSE LET error == IF mw.body = "malformed" THEN SyntaxError ELSE ZodError
                caught == validation_catch(mw.console, error)
            IN  mw' = [mw EXCEPT !.index = @ + 1,
                                 !.pc = "throwing",
                                 !.value = caught.value,
                                 !.trace = @ \o <<Entered("validation"), Left("validation")>>,
                                 !.console = caught.console]
    /\ UNCHANGED <<retryVars, ioVars, svcVars, bldVars, regVars, httpVars>>

\* next() past the last middleware: handler(event, context) is called
Mw_CallHandler ==
    /\ mw.pc = "next"
    /\ mw.index >= Len(mw.chain)
    /\ mw' = [mw EXCEPT !.pc = "handler", !.handlerCalls = @ + 1,
                        !.trace = Append(@, Entered("handler"))]
    /\ UNCHANGED <<retryVars, ioVars, svcVars, bldVars, regVars, httpVars>>

\* the inner handler returns a response
Mw_HandlerReturns ==
    /\ mw.pc = "handler"
    /\ \E response \in HandlerResponses :
         mw' = [mw EXCEPT !.pc = "returning", !.value = response,
                          !.trace = Append(@, Left("handler"))]
    /\ UNCHANGED <<retryVars, ioVars, svcVars, bldVars, regVars, httpVars>>

\* the inner handler throws
Mw_HandlerThrows ==
    /\ mw.pc = "handler"
    /\ \E thrown \in {ZodError, Error("boom")} \cup NonErrors :
         mw' = [mw EXCEPT !.pc = "throwing", !.value = thrown,
                          !.trace = Append(@, Left("handler"))]
    /\ UNCHANGED <<retryVars, ioVars, svcVars, bldVars, regVars, httpVars>>

\* validationMiddleware after await next(): the response passes, a thrown
\* value goes through the catch block
Mw_ExitValidation ==
    /\ ReachesMiddleware("validation")
    /\ IF mw.pc = "returning"
       THEN mw' = [mw EXCEPT !.depth = @ - 1, !.trace = Append(@, Left("validation"))]
       ELSE LET caught == validation_catch(mw.console, mw.value)
            IN  mw' = [mw EXCEPT !.depth = @ - 1,
                                 !.trace = Append(@, Left("validation")),
                                 !.value = caught.value,
                                 !.console = caught.console]
    /\ UNCHANGED <<retryVars, ioVars, svcVars, bldVars, regVars, httpVars>>

\* corsMiddleware after await next(): the headers are overlaid on a response
Mw_ExitCors ==
    /\ ReachesMiddleware("cors")
    /\ mw' = [mw EXCEPT !.depth = @ - 1,
                        !.trace = Append(@, Left("cors")),
                        !.value = IF mw.pc = "returning" THEN cors_overlay(@) ELSE @]
    /\ UNCHANGED <<retryVars, ioVars, svcVars, bldVars, regVars, httpVars>>

\* loggingMiddleware after await next(): the completion line is written for a
\* response
Mw_ExitLogging ==
    /\ ReachesMiddleware("logging")
    /\ mw' = [mw EXCEPT !.depth = @ - 1,
                        !.trace = Append(@, Left("logging")),
                        !.console = IF mw.pc = "returning"
                                    THEN Logger_info(@, "Lambda", "Request completed",
                                                     <<>>).console
                                    ELSE @]
    /\ UNCHANGED <<retryVars, ioVars, svcVars, bldVars, regVars, httpVars>>

\* errorHandlerMiddleware after await next(): the response passes, a thrown
\* value goes through the catch block
Mw_ExitErrorHandler ==
    /\ ReachesMiddleware("errorHandler")
    /\ IF mw.pc = "returning"
       THEN mw' = [mw EXCEPT !.depth = @ - 1, !.trace = Append(@, Left("errorHandler"))]
       ELSE LET done == errorHandler_catch(mw.console, mw.value)
            IN  mw' = [mw EXCEPT !.depth = @ - 1,
                                 !.trace = Append(@, Left("errorHandler")),
                                 !.pc = IF done.threw THEN "throwing" ELSE "returning",
                                 !.value = done.value,
                                 !.console = done.console,
                                 !.boundary = [caught |-> mw.value,
                                               threw |-> done.threw,
                                               result |-> done.value]]
    /\ UNCHANGED <<retryVars, ioVars, svcVars, bldVars, regVars, httpVars>>

\* the promise of the composed handler settles
Mw_Settle ==
    /\ mw.pc \in {"returning", "throwing"}
    /\ mw.depth = 0
    /\ mw' = [mw EXCEPT !.pc = IF mw.pc = "returning" THEN "responded" ELSE "escaped"]
    /\ UNCHANGED <<retryVars, ioVars, svcVars, bldVars, regVars, httpVars>>

MwNext ==
    \/ Mw_Invoke
    \/ Mw_EnterErrorHandler \/ Mw_EnterLogging \/ Mw_EnterCors \/ Mw_EnterValidation
    \/ Mw_CallHandler \/ Mw_HandlerReturns \/ Mw_HandlerThrows
    \/ Mw_ExitValidation \/ Mw_ExitCors \/ Mw_ExitLogging \/ Mw_ExitErrorHandler
    \/ Mw_Settle

(***************************************************************************)
(* SpecBuilder: one OrderBuilder used through its fluent methods           *)
(***************************************************************************)

\* new OrderBuilder()
NewBuilder == [pc |-> "open", order |-> NewOrderBuilder, result |-> <<>>, error |-> <<>>]

BuilderInit == builder = NewBuilder

\* withOrderId(orderId)
Builder_withOrderId ==
    /\ builder.pc = "open"
    /\ \E orderId \in {EmptyId, FirstId} :
         builder' = [builder EXCEPT !.order = withOrderId(@, orderId)]
    /\ UNCHANGED <<retryVars, ioVars, svcVars, mwVars, regVars, httpVars>>

\* withCustomerId(customerId)
Builder_withCustomerId ==
    /\ builder.pc = "open"
    /\ \E customerId \in {"", "customer-123"} :
         builder' = [builder EXCEPT !.order = withCustomerId(@, customerId)]
    /\ UNCHANGED <<retryVars, ioVars, svcVars, mwVars, regVars, httpVars>>

\* withCustomerEmail(email)
Builder_withCustomerEmail ==
    /\ builder.pc = "open"
    /\ \E email \in {"", "test@example.com"} :
         builder' = [builder EXCEPT !.order = withCustomerEmail(@, email)]
    /\ UNCHANGED <<retryVars, ioVars, svcVars, mwVars, regVars, httpVars>>

\* withItems(items)
Builder_withItems ==
    /\ builder.pc = "open"
    /\ \E items \in {<<>>, ItemsA, ItemsB} :
         builder' = [builder EXCEPT !.order = withItems(@, items)]
    /\ UNCHANGED <<retryVars, ioVars, svcVars, mwVars, regVars, httpVars>>

\* withStatus(status)
Builder_withStatus ==
    /\ builder.pc = "open"
    /\ \E status \in {"PROCESSING"} :
         builder' = [builder EXCEPT !.order = withStatus(@, status)]
    /\ UNCHANGED <<retryVars, ioVars, svcVars, mwVars, regVars, httpVars>>

\* withShippingAddress(address)
Builder_withShippingAddress ==
    /\ builder.pc = "open"
    /\ \E address \in {AddressA} :
         builder' = [builder EXCEPT !.order = withShippingAddress(@, address)]
    /\ UNCHANGED <<retryVars, ioVars, svcVars, mwVars, regVars, httpVars>>

\* withMetadata(metadata), with a metadata object or with undefined
Builder_withMetadata ==
    /\ builder.pc = "open"
    /\ \E request \in {<<>>, [metadata |-> [channel |-> "web"]]} :
         builder' = [builder EXCEPT !.order = withMetadata(@, request)]
    /\ UNCHANGED <<retryVars, ioVars, svcVars, mwVars, regVars, httpVars>>

\* build(): returns the order or throws
Builder_build ==
    /\ builder.pc = "open"
    /\ \E now \in 0..MaxClock :
         LET built == OrderBuilder_build(builder.order, now)
         IN  builder' = IF built.ok
                        THEN [builder EXCEPT !.pc = "built", !.result = built.order]
                        ELSE [builder EXCEPT !.pc = "threw", !.error = built.error]
    /\ UNCHANGED <<retryVars, ioVars, svcVars, mwVars, regVars, httpVars>>

BuilderNext ==
    \/ Builder_withOrderId \/ Builder_withCustomerId \/ Builder_withCustomerEmail
    \/ Builder_withItems \/ Builder_withStatus \/ Builder_withShippingAddress
    \/ Builder_withMetadata \/ Builder_build

(***************************************************************************)
(* EventHandlerRegistry (services/event-publisher) and the EventBridge     *)
(* entry point (handlers/event-handlers)                                   *)
(***************************************************************************)

\* a variant of register that keeps the handler a type already has
registry_registerKeepsFirst(handlers, eventType, handler) ==
    IF eventType \in DOMAIN handlers THEN handlers
    ELSE Merge(handlers, [t \in {eventType} |-> handler])

\* register: this.handlers.set(eventType, handler)
registry_register(handlers, eventType, handler) ==
    Merge(handlers, [t \in {eventType} |-> handler])

\* this.handlers.get(event.type)
registry_get(handlers, eventType) ==
    IF eventType \in DOMAIN handlers THEN handlers[eventType] ELSE Undefined

\* a variant of dispatch that rejects an event no handler is registered for
dispatch_beginStrict(handlers, event) ==
    LET handler == registry_get(handlers, event.type)
    IN  IF handler = Undefined
        THEN [pc |-> "rejected", handler |-> Undefined, invoked |-> <<>>,
              error |-> Error("No handler registered")]
        ELSE [pc |-> "handling", handler |-> handler,
              invoked |-> <<[handler |-> handler, event |-> event]>>,
              error |-> <<>>]

\* dispatch up to its await of handler.handle(event), or to its return when no
\* handler is registered for the event's type
dispatch_begin(handlers, event) ==
    LET handler == registry_get(handlers, event.type)
    IN  IF handler = Undefined
        THEN [pc |-> "resolved", handler |-> Undefined, invoked |-> <<>>, error |-> <<>>]
        ELSE [pc |-> "handling", handler |-> handler,
              invoked |-> <<[handler |-> handler, event |-> event]>>,
              error |-> <<>>]

\* the catch block of dispatch: logger.error(..., error, { eventType }); throw error
dispatch_catch(error) ==
    LET logged == Logger_error(<<>>, "EventHandlerRegistry", "Error handling event", error)
    IN  IF logged.ok THEN error ELSE logged.thrown

\* the catch block of eventBridgeHandler: logger.error(..., error); throw error
eventBridge_catch(error) ==
    LET logged == Logger_error(<<>>, "EventBridgeHandler",
                               "Error processing EventBridge event", error)
    IN  IF logged.ok THEN error ELSE logged.thrown

\* the domain event eventBridgeHandler makes of an EventBridge event
eventBridge_domainEvent(event) == [type |-> event.detailType, payload |-> event.detail]

\* the register calls made when the event-handlers module is loaded
ModuleRegistrations ==
    << [eventType |-> "ORDER_CREATED", handler |-> "OrderCreatedHandler"],
       [eventType |-> "ORDER_UPDATED", handler |-> "OrderUpdatedHandler"],
       [eventType |-> "ORDER_DELETED", handler |-> "OrderDeletedHandler"],
       [eventType |-> "PAYMENT_PROCESSED", handler |-> "PaymentProcessedHandler"] >>

\* the handlers map after a sequence of register calls on a new registry
RECURSIVE registerAll(_)
registerAll(registrations) ==
    IF registrations = <<>> THEN <<>>
    ELSE registry_register(registerAll(SubSeq(registrations, 1, Len(registrations) - 1)),
                           registrations[Len(registrations)].eventType,
                           registrations[Len(registrations)].handler)

\* const registry of the event-handlers module
ModuleRegistry == registerAll(ModuleRegistrations)

(***************************************************************************)
(* SpecRegistry: register calls on a registry, one dispatch on it or one   *)
(* EventBridge invocation                                                  *)
(***************************************************************************)

\* the register calls of a run
MaxRegisters == 3

\* the event types and handlers given to register
RegisteredTypes == {"ORDER_CREATED", "ORDER_UPDATED"}
TestHandlers == {"handlerA", "handlerB"}

\* the events given to dispatch
DomainEvents ==
    { [type |-> "ORDER_CREATED",
       payload |-> [orderId |-> 1, customerId |-> "customer-123", items |-> <<>>,
                    totalAmount |-> 100, createdAt |-> 0]],
      [type |-> "ORDER_UPDATED",
       payload |-> [orderId |-> 1, updates |-> <<>>, updatedAt |-> 0]] }

\* the events EventBridge delivers: the four registered detail types and one
\* that is not registered
EventBridgeEvents ==
    { [detailType |-> t, source |-> "order-service", detail |-> [orderId |-> 1]] :
        t \in {"ORDER_CREATED", "ORDER_UPDATED", "ORDER_DELETED", "PAYMENT_PROCESSED",
               "INVENTORY_ADJUSTED"} }

\* what handle(event) may throw: a handler given to register may throw
\* anything; of the module's handlers the two that publish a notification
\* rethrow the publisher's error and the other two only log
ThrownBy(handler) ==
    IF handler \in TestHandlers THEN {Error("Handler error")} \cup NonErrors
    ELSE IF handler \in {"OrderCreatedHandler", "PaymentProcessedHandler"}
    THEN {Error("Failed to publish notification")}
    ELSE {}

\* new EventHandlerRegistry()
NewRegistry ==
    [handlers |-> <<>>,
     registered |-> <<>>]     \* history: the register calls, in order

\* no dispatch in progress
NewDispatch ==
    [pc |-> "idle",
     entry |-> "none",        \* "dispatch" or "eventBridge"
     event |-> <<>>,          \* the event given to dispatch
     handler |-> Undefined,   \* the handler dispatch found
     invoked |-> <<>>,        \* history: the handle(event) calls, in order
     thrown |-> <<>>,         \* history: what handle(event) threw
     error |-> <<>>,          \* what dispatch rejected with
     registeredAtCall |-> <<>>, \* history: the register calls made before the dispatch
     entryPc |-> "none",      \* eventBridgeHandler: "awaiting", "resolved", "rejected"
     entryError |-> <<>>]     \* what eventBridgeHandler rejected with

RegistryInit == registry = NewRegistry /\ disp = NewDispatch

\* registry.register(eventType, handler)
Registry_Register ==
    /\ Len(registry.registered) < MaxRegisters
    /\ \E eventType \in RegisteredTypes, handler \in TestHandlers :
         registry' = [handlers |-> registry_register(registry.handlers, eventType, handler),
                      registered |-> Append(registry.registered,
                                            [eventType |-> eventType, handler |-> handler])]
    /\ UNCHANGED <<disp, retryVars, ioVars, svcVars, mwVars, bldVars, httpVars>>

\* registry.dispatch(event) runs to its await of the handler, or returns
Registry_Dispatch ==
    /\ disp.pc = "idle"
    /\ \E event \in DomainEvents :
         LET begun == dispatch_begin(registry.handlers, event)
         IN  disp' = [disp EXCEPT !.pc = begun.pc, !.entry = "dispatch", !.event = event,
                                  !.handler = begun.handler, !.invoked = begun.invoked,
                                  !.error = begun.error,
                                  !.registeredAtCall = registry.registered]
    /\ UNCHANGED <<registry, retryVars, ioVars, svcVars, mwVars, bldVars, httpVars>>

\* eventBridgeHandler(event, context) runs to its await of registry.dispatch
EventBridge_Invoke ==
    /\ disp.pc = "idle"
    /\ \E event \in EventBridgeEvents :
         LET domainEvent == eventBridge_domainEvent(event)
             begun == dispatch_begin(ModuleRegistry, domainEvent)
         IN  disp' = [disp EXCEPT !.pc = begun.pc, !.entry = "eventBridge",
                                  !.event = domainEvent,
                                  !.handler = begun.handler, !.invoked = begun.invoked,
                                  !.error = begun.error,
                                  !.registeredAtCall = ModuleRegistrations,
                                  !.entryPc = "awaiting"]
    /\ UNCHANGED <<registry, retryVars, ioVars, svcVars, mwVars, bldVars, httpVars>>

\* handler.handle(event) resolves and dispatch returns
Handler_Resolves ==
    /\ disp.pc = "handling"
    /\ disp' = [disp EXCEPT !.pc = "resolved"]
    /\ UNCHANGED <<registry, retryVars, ioVars, svcVars, mwVars, bldVars, httpVars>>

\* handler.handle(event) throws and dispatch goes through its catch block
Handler_Throws ==
    /\ disp.pc = "handling"
    /\ \E thrown \in ThrownBy(disp.handler) :
         disp' = [disp EXCEPT !.pc = "rejected", !.thrown = thrown,
                              !.error = dispatch_catch(thrown)]
    /\ UNCHANGED <<registry, retryVars, ioVars, svcVars, mwVars, bldVars, httpVars>>

\* eventBridgeHandler after await registry.dispatch(domainEvent)
EventBridge_Settle ==
    /\ disp.entryPc = "awaiting"
    /\ disp.pc \in {"resolved", "rejected"}
    /\ disp' = IF disp.pc = "resolved"
               THEN [disp EXCEPT !.entryPc = "resolved"]
               ELSE [disp EXCEPT !.entryPc = "rejected",
                                 !.entryError = eventBridge_catch(disp.error)]
    /\ UNCHANGED <<registry, retryVars, ioVars, svcVars, mwVars, bldVars, httpVars>>

RegistryNext ==
    \/ Registry_Register \/ Registry_Dispatch \/ EventBridge_Invoke
    \/ Handler_Resolves \/ Handler_Throws \/ EventBridge_Settle

(***************************************************************************)
(* createOrderSchema (models/schemas), the rest of OrderService and of the *)
(* repository, and the HTTP handlers (handlers/order-handlers)             *)
(***************************************************************************)

\* the strings of a run that z.string().uuid() accepts
Uuids == {"550e8400-e29b-41d4-a716-446655440000"}
\* the strings of a run that z.string().email() accepts
Emails == {"test@example.com"}
\* the strings of a run that match /^\d{5}(-\d{4})?$/
ZipCodes == {"02101", "02101-1234"}
\* the strings of a run that are two characters long
TwoCharacterStrings == {"MA"}

\* orderItemSchema
orderItemSchema_accepts(item) ==
    /\ {"productId", "name", "quantity", "price"} \subseteq DOMAIN item
    /\ item.productId \in Uuids
    /\ item.name # ""
    /\ item.quantity > 0
    /\ item.price > 0

\* a variant of the schema that takes any string for customerEmail
createOrderSchema_acceptsAnyEmail(body) ==
    /\ {"customerId", "customerEmail", "items", "shippingAddress"} \subseteq DOMAIN body
    /\ body.customerId # ""
    /\ Len(body.items) >= 1
    /\ \A i \in DOMAIN body.items : orderItemSchema_accepts(body.items[i])
    /\ {"street", "city", "state", "zipCode"} \subseteq DOMAIN body.shippingAddress
    /\ body.shippingAddress.street # ""
    /\ body.shippingAddress.city # ""
    /\ body.shippingAddress.state \in TwoCharacterStrings
    /\ body.shippingAddress.zipCode \in ZipCodes

\* whether createOrderSchema.parse(body) returns
createOrderSchema_accepts(body) ==
    /\ {"customerId", "customerEmail", "items", "shippingAddress"} \subseteq DOMAIN body
    /\ body.customerId # ""
    /\ body.customerEmail \in Emails
    /\ Len(body.items) >= 1
    /\ \A i \in DOMAIN body.items : orderItemSchema_accepts(body.items[i])
    /\ {"street", "city", "state", "zipCode"} \subseteq DOMAIN body.shippingAddress
    /\ body.shippingAddress.street # ""
    /\ body.shippingAddress.city # ""
    /\ body.shippingAddress.state \in TwoCharacterStrings
    /\ body.shippingAddress.zipCode \in ZipCodes

\* what createOrderSchema.parse(body) returns: the keys of the schema only,
\* country defaulted to 'US'
createOrderSchema_output(body) ==
    [k \in (DOMAIN body) \cap {"customerId", "customerEmail", "items", "shippingAddress",
                               "metadata"} |->
        IF k = "shippingAddress"
        THEN LET address == body.shippingAddress
             IN  Merge([country |-> "US"],
                       [a \in (DOMAIN address) \cap {"street", "city", "state", "zipCode",
                                                     "country"} |-> address[a]])
        ELSE body[k]]

\* JSON.parse(event.body) where event.body is text; an event without the key
\* has body null
JSONParse(text) ==
    IF text.kind = "json" THEN [ok |-> TRUE, value |-> text.value]
    ELSE [ok |-> FALSE, error |-> SyntaxError]

\* the try block of validationMiddleware up to next(): JSON.parse, schema.parse
validation_parse(event) ==
    LET parsed == IF "body" \in DOMAIN event THEN JSONParse(event.body)
                  ELSE [ok |-> TRUE, value |-> <<>>]
    IN  IF ~parsed.ok THEN parsed
        ELSE IF createOrderSchema_accepts(parsed.value)
        THEN [ok |-> TRUE, value |-> createOrderSchema_output(parsed.value)]
        ELSE [ok |-> FALSE, error |-> ZodError]

\* how validationMiddleware(createOrderSchema) fares on the event
validation_outcome(event) ==
    LET parsed == validation_parse(event)
    IN  IF parsed.ok THEN "valid"
        ELSE IF isZodError(parsed.error) THEN "invalid" ELSE "malformed"

\* a variant of the handler that parses event.body again instead of reading
\* event.validatedBody
createOrderHandler_requestRaw(event, validated) ==
    IF "body" \in DOMAIN event THEN JSONParse(event.body)
    ELSE [ok |-> TRUE, value |-> <<>>]

\* event.validatedBody ?? JSON.parse(event.body ?? '{}')
createOrderHandler_request(event, validated) ==
    IF validated THEN validation_parse(event)
    ELSE IF "body" \in DOMAIN event THEN JSONParse(event.body)
    ELSE [ok |-> TRUE, value |-> <<>>]

\* event.pathParameters?.orderId is neither null nor undefined
hasOrderId(event) ==
    IF "pathParameters" \in DOMAIN event
    THEN "orderId" \in DOMAIN event.pathParameters
    ELSE FALSE

\* parseInt(text, 10) on the decimal numerals of a run
parseInt(text) == CASE text = "1" -> 1 [] text = "2" -> 2 [] text = "20" -> 20

\* successResponse(data, { requestId })
successResponse(data, now) ==
    [success |-> TRUE, data |-> data,
     metadata |-> [requestId |-> "request-1", timestamp |-> now, version |-> "1.0"]]

\* createResponse(statusCode, data, requestId)
createResponse(statusCode, data, now) ==
    [statusCode |-> statusCode, headers |-> corsHeaders, body |-> successResponse(data, now)]

\* the response literals of the handlers: Content-Type is their only header
handlerErrorResponse(statusCode, message, code) ==
    [statusCode |-> statusCode,
     headers |-> [h \in {"Content-Type"} |-> "application/json"],
     body |-> errorResponse([text |-> message], code)]

\* the catch block of a handler: logger.error(message, error); throw error
handler_catch(console, context, message, error) ==
    LET logged == Logger_error(console, context, message, error)
    IN  [value |-> IF logged.ok THEN error ELSE logged.thrown, console |-> logged.console]

\* a variant of getOrder that rejects when the order is absent
getOrder_afterFindStrict(c, res) ==
    IF ~res.ok THEN Rejects(c, res.error)
    ELSE IF res.value = <<>> THEN Rejects(c, NotFoundError(c.req.orderId))
    ELSE [c EXCEPT !.pc = "done", !.result = res.value]

\* getOrder after await repository.findById(orderId): the order or null
getOrder_afterFind(c, res) ==
    IF res.ok THEN [c EXCEPT !.pc = "done", !.result = res.value]
    ELSE Rejects(c, res.error)

\* the keys of a page in the order the table returns them
RECURSIVE inKeyOrder(_)
inKeyOrder(keys) ==
    IF keys = {} THEN <<>>
    ELSE LET first == CHOOSE k \in keys : \A j \in keys : k <= j
         IN  <<first>> \o inKeyOrder(keys \ {first})

\* Buffer.from(JSON.stringify(key)).toString('base64') and its inverse
encodeToken(key) == [base64 |-> key]
decodeToken(token) == token.base64

\* ScanCommand / QueryCommand over the items under keys, with Limit and
\* ExclusiveStartKey: LastEvaluatedKey is there when Limit stopped the read
storePage(st, keys, params) ==
    LET after == IF "nextToken" \in DOMAIN params
                 THEN {k \in keys : k > decodeToken(params.nextToken).orderId}
                 ELSE keys
        ordered == inKeyOrder(after)
        n == Min(params.limit, Len(ordered))
        page == [Items |-> [i \in 1..n |-> st[ordered[i]]], Count |-> n]
    IN  IF n = params.limit /\ n > 0
        THEN Merge(page, [LastEvaluatedKey |-> [orderId |-> ordered[n]]])
        ELSE page

\* the PaginatedResult made of a page
paginatedResult(page) ==
    Merge([items |-> page.Items, count |-> page.Count],
          IF "LastEvaluatedKey" \in DOMAIN page
          THEN [nextToken |-> encodeToken(page.LastEvaluatedKey)]
          ELSE <<>>)

\* findAll(params)
repository_findAll(st, params, script) ==
    LET r == repositoryRetry(script)
    IN  IF r.pc = "returned"
        THEN [ok |-> TRUE, value |-> paginatedResult(storePage(st, DOMAIN st, params)),
              store |-> st, method |-> "findAll"]
        ELSE [ok |-> FALSE, error |-> r.thrown, store |-> st, method |-> "findAll"]

\* queryByIndex('CustomerIdIndex', 'customerId = :customerId', ..., params)
repository_queryByIndex(st, customerId, params, script) ==
    LET r == repositoryRetry(script)
        keys == {k \in DOMAIN st : IF "customerId" \in DOMAIN st[k]
                                   THEN st[k].customerId = customerId ELSE FALSE}
    IN  IF r.pc = "returned"
        THEN [ok |-> TRUE, value |-> paginatedResult(storePage(st, keys, params)),
              store |-> st, method |-> "queryByIndex"]
        ELSE [ok |-> FALSE, error |-> r.thrown, store |-> st, method |-> "queryByIndex"]

\* a variant of listOrders that scans the table whatever it is given
listOrders_queryScanOnly(st, request, script) ==
    repository_findAll(st, [k \in (DOMAIN request) \cap {"limit", "nextToken"} |-> request[k]],
                       script)

\* listOrders(customerId, limit, nextToken) up to its await
listOrders_query(st, request, script) ==
    LET params == [k \in (DOMAIN request) \cap {"limit", "nextToken"} |-> request[k]]
    IN  IF "customerId" \in DOMAIN request /\ request.customerId # ""
        THEN repository_queryByIndex(st, request.customerId, params, script)
        ELSE repository_findAll(st, params, script)

\* listOrders after its await: { orders: result.items, nextToken: result.nextToken }
listOrders_afterQuery(c, res) ==
    IF res.ok
    THEN [c EXCEPT !.pc = "done",
                   !.result = Merge([orders |-> res.value.items],
                                    [k \in (DOMAIN res.value) \cap {"nextToken"} |->
                                        res.value[k]])]
    ELSE Rejects(c, res.error)

(***************************************************************************)
(* SpecHttp: one API Gateway request through one of the order handlers,    *)
(* over a table that is empty or holds one order                           *)
(***************************************************************************)

Routes == {"createOrder", "getOrder", "listOrders", "updateOrder", "deleteOrder"}

\* the middlewares given to withMiddleware for the route's handler
ChainOf(route) ==
    IF route = "createOrder"
    THEN <<"errorHandler", "logging", "cors", "validation">>
    ELSE <<"errorHandler", "logging", "cors">>

ItemsU == <<[productId |-> "550e8400-e29b-41d4-a716-446655440000", name |-> "Product 1",
             quantity |-> 2, price |-> 30]>>

\* a body createOrderSchema accepts, without a country
CreateBodyA ==
    [customerId |-> "customer-123", customerEmail |-> "test@example.com", items |-> ItemsU,
     shippingAddress |-> [street |-> "123 Main St", city |-> "Boston", state |-> "MA",
                          zipCode |-> "02101"]]

\* one with a country, metadata and a key the schema does not know
CreateBodyB ==
    [customerId |-> "customer-123", customerEmail |-> "test@example.com", items |-> ItemsU,
     shippingAddress |-> [street |-> "123 Main St", city |-> "Boston", state |-> "MA",
                          zipCode |-> "02101-1234", country |-> "CA"],
     metadata |-> [channel |-> "web"], coupon |-> "SPRING"]

\* the parsed bodies of POST /orders: the two above and some the schema rejects
CreateBodies ==
    { CreateBodyA, CreateBodyB,
      <<>>,
      [CreateBodyA EXCEPT !.customerEmail = "invalid-email"],
      [CreateBodyA EXCEPT !.items = <<>>],
      [CreateBodyA EXCEPT !.items = ItemsA],
      [CreateBodyA EXCEPT !.shippingAddress.zipCode = "ABCDE"],
      [k \in (DOMAIN CreateBodyA) \ {"customerId"} |-> CreateBodyA[k]] }

\* event.body: absent for null, text that is JSON, text that is not
BodiesOf(values) ==
    {<<>>, [body |-> [kind |-> "text"]]}
    \cup {[body |-> [kind |-> "json", value |-> v]] : v \in values}

\* event.pathParameters: null, without orderId, with an empty or a real one
PathEvents ==
    {<<>>, [pathParameters |-> <<>>]}
    \cup {[pathParameters |-> [orderId |-> id]] : id \in {EmptyId} \cup OrderIds}

\* the API Gateway events of a route
EventsOf(route) ==
    CASE route = "createOrder" -> BodiesOf(CreateBodies)
      [] route = "getOrder" -> PathEvents
      [] route = "listOrders" ->
             {<<>>}
             \cup {[queryStringParameters |-> q] :
                      q \in {<<>>, [customerId |-> "customer-123"], [limit |-> "1"],
                            [customerId |-> "customer-456", limit |-> "2"],
                            [limit |-> "1", nextToken |-> encodeToken([orderId |-> FirstId])]}}
      [] route = "updateOrder" ->
             {Merge(p, b) : p \in PathEvents,
                            b \in BodiesOf({[status |-> "PROCESSING"], [status |-> "REFUNDED"],
                                          [items |-> ItemsC],
                                          [orderId |-> FirstId, status |-> "SHIPPED"]})}
      [] route = "deleteOrder" ->
             {Merge(p, b) : p \in PathEvents,
                            b \in BodiesOf({<<>>, [reason |-> "Customer requested"]})}

\* no request has arrived
NewHttp ==
    [pc |-> "idle",         \* "invoked", "awaiting" the service, "returned"
     route |-> "none",
     event |-> <<>>,
     serviceCalls |-> 0]    \* history: the calls made to orderService

HttpInit == http = NewHttp

\* the handler of the route has been called by the chain and has not run yet
HandlerEntered(route) ==
    /\ mw.pc = "handler"
    /\ http.pc = "invoked"
    /\ http.route = route

\* the service call the handler awaits has settled
HandlerResumes(route) ==
    /\ mw.pc = "handler"
    /\ http.pc = "awaiting"
    /\ http.route = route
    /\ Settled(call[1])

\* API Gateway invokes the exported handler of a route
Http_Invoke ==
    /\ http.pc = "idle"
    /\ mw.pc = "idle"
    /\ \E route \in Routes :
         \E event \in EventsOf(route) :
            /\ http' = [http EXCEPT !.pc = "invoked", !.route = route, !.event = event]
            /\ mw' = [mw EXCEPT !.pc = "next", !.chain = ChainOf(route),
                                !.body = IF "validation" \in {ChainOf(route)[i] :
                                                               i \in DOMAIN ChainOf(route)}
                                         THEN validation_outcome(event) ELSE "none"]
    /\ UNCHANGED <<retryVars, ioVars, svcVars, bldVars, regVars>>

\* the handler settles by throwing error through its catch block
HandlerThrows(context, message, error) ==
    LET caught == handler_catch(mw.console, context, message, error)
    IN  /\ mw' = [mw EXCEPT !.pc = "throwing", !.value = caught.value,
                            !.trace = Append(@, Left("handler")),
                            !.console = caught.console]
        /\ http' = [http EXCEPT !.pc = "returned"]

\* the handler settles by returning response
HandlerReturns(response) ==
    /\ mw' = [mw EXCEPT !.pc = "returning", !.value = response,
                        !.trace = Append(@, Left("handler"))]
    /\ http' = [http EXCEPT !.pc = "returned"]

\* createOrderHandler up to await orderService.createOrder(validatedData),
\* which runs to its await of repository.save
CreateOrderHandler_Call ==
    /\ HandlerEntered("createOrder")
    /\ CanStart(1)
    /\ idsIssued < FirstId + MaxOrders
    /\ LET parsed == createOrderHandler_request(http.event, mw.validated)
       IN  IF parsed.ok
           THEN /\ \E now \in Instants :
                     /\ call' = [call EXCEPT ![1] =
                                    createOrder_begin(parsed.value, idsIssued + 1, now)]
                     /\ clock' = now
                /\ idsIssued' = idsIssued + 1
                /\ http' = [http EXCEPT !.pc = "awaiting", !.serviceCalls = @ + 1]
                /\ mw' = mw
           ELSE /\ HandlerThrows("CreateOrderHandler", "Error creating order", parsed.error)
                /\ UNCHANGED <<call, clock, idsIssued>>
    /\ UNCHANGED <<store, bus, retryVars, ioVars, bldVars, regVars>>

\* createOrderHandler after the await: createResponse(201, order), or the catch block
CreateOrderHandler_Return ==
    /\ HandlerResumes("createOrder")
    /\ IF call[1].pc = "done"
       THEN \E now \in Instants :
               /\ HandlerReturns(createResponse(201, call[1].result, now))
               /\ clock' = now
       ELSE /\ HandlerThrows("CreateOrderHandler", "Error creating order", call[1].error)
            /\ clock' = clock
    /\ UNCHANGED <<store, bus, idsIssued, call, retryVars, ioVars, bldVars, regVars>>

\* getOrderHandler up to its 400 response or to await orderService.getOrder(orderId),
\* which runs to its await of repository.findById
GetOrderHandler_Call ==
    /\ HandlerEntered("getOrder")
    /\ CanStart(1)
    /\ IF hasOrderId(http.event) /\ http.event.pathParameters.orderId # EmptyId
       THEN /\ \E k \in FailureCounts(RepositoryRetryOptions) :
                 LET orderId == http.event.pathParameters.orderId
                     res == repository_findById(store, orderId,
                                AttemptScript(k, StoreUnavailable, RepositoryRetryOptions))
                     c == [NewCall EXCEPT !.op = "getOrder", !.req = [orderId |-> orderId],
                                          !.log = <<"findById">>,
                                          !.absentAtRead = res.ok /\ orderId \notin DOMAIN store]
                 IN  call' = [call EXCEPT ![1] = getOrder_afterFind(c, res)]
            /\ http' = [http EXCEPT !.pc = "awaiting", !.serviceCalls = @ + 1]
            /\ mw' = mw
       ELSE /\ HandlerReturns(handlerErrorResponse(400, "Order ID is required",
                                                   "VALIDATION_ERROR"))
            /\ call' = call
    /\ UNCHANGED <<store, bus, clock, idsIssued, retryVars, ioVars, bldVars, regVars>>

\* getOrderHandler after the await: 404 for null, createResponse(200, order),
\* or the catch block
GetOrderHandler_Return ==
    /\ HandlerResumes("getOrder")
    /\ IF call[1].pc = "done"
       THEN IF call[1].result = <<>>
            THEN /\ HandlerReturns(handlerErrorResponse(404, "Order not found", "NOT_FOUND"))
                 /\ clock' = clock
            ELSE \E now \in Instants :
                    /\ HandlerReturns(createResponse(200, call[1].result, now))
                    /\ clock' = now
       ELSE /\ HandlerThrows("GetOrderHandler", "Error getting order", call[1].error)
            /\ clock' = clock
    /\ UNCHANGED <<store, bus, idsIssued, call, retryVars, ioVars, bldVars, regVars>>

\* listOrdersHandler up to await orderService.listOrders(customerId, limit, nextToken),
\* which runs to its await of repository.queryByIndex or repository.findAll
ListOrdersHandler_Call ==
    /\ HandlerEntered("listOrders")
    /\ CanStart(1)
    /\ \E k \in FailureCounts(RepositoryRetryOptions) :
         LET query == IF "queryStringParameters" \in DOMAIN http.event
                      THEN http.event.queryStringParameters ELSE <<>>
             request == Merge([k2 \in (DOMAIN query) \cap {"customerId", "nextToken"} |->
                                  query[k2]],
                              [limit |-> IF "limit" \in DOMAIN query
                                         THEN parseInt(query.limit) ELSE 20])
             res == listOrders_query(store, request,
                        AttemptScript(k, StoreUnavailable, RepositoryRetryOptions))
             c == [NewCall EXCEPT !.op = "listOrders", !.req = request,
                                  !.log = <<res.method>>]
         IN  call' = [call EXCEPT ![1] = listOrders_afterQuery(c, res)]
    /\ http' = [http EXCEPT !.pc = "awaiting", !.serviceCalls = @ + 1]
    /\ UNCHANGED <<mw, store, bus, clock, idsIssued, retryVars, ioVars, bldVars, regVars>>

\* listOrdersHandler after the await: createResponse(200, result), or the catch block
ListOrdersHandler_Return ==
    /\ HandlerResumes("listOrders")
    /\ IF call[1].pc = "done"
       THEN \E now \in Instants :
               /\ HandlerReturns(createResponse(200, call[1].result, now))
               /\ clock' = now
       ELSE /\ HandlerThrows("ListOrdersHandler", "Error listing orders", call[1].error)
            /\ clock' = clock
    /\ UNCHANGED <<store, bus, idsIssued, call, retryVars, ioVars, bldVars, regVars>>

\* updateOrderHandler up to its 400 response, to the throw of JSON.parse, or to
\* await orderService.updateOrder({ orderId, ...body }), which runs through
\* repository.findById to its await of repository.update
UpdateOrderHandler_Call ==
    /\ HandlerEntered("updateOrder")
    /\ CanStart(1)
    /\ IF ~hasOrderId(http.event)
       THEN /\ HandlerReturns(handlerErrorResponse(400, "Order ID is required",
                                                   "VALIDATION_ERROR"))
            /\ UNCHANGED <<call, clock>>
       ELSE LET body == IF "body" \in DOMAIN http.event THEN JSONParse(http.event.body)
                        ELSE [ok |-> TRUE, value |-> <<>>]
            IN  IF ~body.ok
                THEN /\ HandlerThrows("UpdateOrderHandler", "Error updating order", body.error)
                     /\ UNCHANGED <<call, clock>>
                ELSE /\ \E k \in FailureCounts(RepositoryRetryOptions), now \in Instants :
                          LET request == Merge([orderId |-> http.event.pathParameters.orderId],
                                               body.value)
                              res == repository_findById(store, request.orderId,
                                         AttemptScript(k, StoreUnavailable,
                                                       RepositoryRetryOptions))
                              c == [NewCall EXCEPT
                                       !.op = "updateOrder", !.req = request,
                                       !.log = <<"findById">>,
                                       !.absentAtRead =
                                           res.ok /\ request.orderId \notin DOMAIN store]
                          IN  /\ call' = [call EXCEPT ![1] = updateOrder_afterFind(c, res, now)]
                              /\ clock' = now
                     /\ http' = [http EXCEPT !.pc = "awaiting", !.serviceCalls = @ + 1]
                     /\ mw' = mw
    /\ UNCHANGED <<store, bus, idsIssued, retryVars, ioVars, bldVars, regVars>>

\* updateOrderHandler after the await: createResponse(200, order), or the catch block
UpdateOrderHandler_Return ==
    /\ HandlerResumes("updateOrder")
    /\ IF call[1].pc = "done"
       THEN \E now \in Instants :
               /\ HandlerReturns(createResponse(200, call[1].result, now))
               /\ clock' = now
       ELSE /\ HandlerThrows("UpdateOrderHandler", "Error updating order", call[1].error)
            /\ clock' = clock
    /\ UNCHANGED <<store, bus, idsIssued, call, retryVars, ioVars, bldVars, regVars>>

\* deleteOrderHandler up to its 400 response, to the throw of JSON.parse, or to
\* await orderService.deleteOrder(orderId, body.reason), which runs through
\* repository.findById to its await of repository.delete
DeleteOrderHandler_Call ==
    /\ HandlerEntered("deleteOrder")
    /\ CanStart(1)
    /\ IF ~hasOrderId(http.event)
       THEN /\ HandlerReturns(handlerErrorResponse(400, "Order ID is required",
                                                   "VALIDATION_ERROR"))
            /\ call' = call
       ELSE LET body == IF "body" \in DOMAIN http.event THEN JSONParse(http.event.body)
                        ELSE [ok |-> TRUE, value |-> <<>>]
            IN  IF ~body.ok
                THEN /\ HandlerThrows("DeleteOrderHandler", "Error deleting order", body.error)
                     /\ call' = call
                ELSE /\ \E k \in FailureCounts(RepositoryRetryOptions) :
                          LET request == [orderId |-> http.event.pathParameters.orderId,
                                          reason |-> IF "reason" \in DOMAIN body.value
                                                     THEN body.value.reason ELSE Undefined]
                              res == repository_findById(store, request.orderId,
                                         AttemptScript(k, StoreUnavailable,
                                                       RepositoryRetryOptions))
                              c == [NewCall EXCEPT
                                       !.op = "deleteOrder", !.req = request,
                                       !.log = <<"findById">>,
                                       !.absentAtRead =
                                           res.ok /\ request.orderId \notin DOMAIN store]
                          IN  call' = [call EXCEPT ![1] = deleteOrder_afterFind(c, res)]
                     /\ http' = [http EXCEPT !.pc = "awaiting", !.serviceCalls = @ + 1]
                     /\ mw' = mw
    /\ UNCHANGED <<store, bus, clock, idsIssued, retryVars, ioVars, bldVars, regVars>>

\* deleteOrderHandler after the await: createResponse(204, {}), or the catch block
DeleteOrderHandler_Return ==
    /\ HandlerResumes("deleteOrder")
    /\ IF call[1].pc = "done"
       THEN \E now \in Instants :
               /\ HandlerReturns(createResponse(204, <<>>, now))
               /\ clock' = now
       ELSE /\ HandlerThrows("DeleteOrderHandler", "Error deleting order", call[1].error)
            /\ clock' = clock
    /\ UNCHANGED <<store, bus, idsIssued, call, retryVars, ioVars, bldVars, regVars>>

\* the steps of the service call the handler awaits
HttpServiceNext ==
    \/ CreateOrder_Save(1) \/ CreateOrder_Publish(1)
    \/ UpdateOrder_Update(1) \/ UpdateOrder_Publish(1)
    \/ DeleteOrder_Delete(1) \/ DeleteOrder_Publish(1)

\* the steps of the middleware chain around the handler
HttpChainNext ==
    \/ Mw_EnterErrorHandler \/ Mw_EnterLogging \/ Mw_EnterCors \/ Mw_EnterValidation
    \/ Mw_CallHandler
    \/ Mw_ExitValidation \/ Mw_ExitCors \/ Mw_ExitLogging \/ Mw_ExitErrorHandler
    \/ Mw_Settle

HttpNext ==
    \/ Http_Invoke
    \/ HttpChainNext
    \/ CreateOrderHandler_Call \/ CreateOrderHandler_Return
    \/ GetOrderHandler_Call \/ GetOrderHandler_Return
    \/ ListOrdersHandler_Call \/ ListOrdersHandler_Return
    \/ UpdateOrderHandler_Call \/ UpdateOrderHandler_Return
    \/ DeleteOrderHandler_Call \/ DeleteOrderHandler_Return
    \/ HttpServiceNext

(***************************************************************************)
(* sqsHandler (handlers/sqs-handler): one batch of queue records           *)
(***************************************************************************)

\* the value JSON.parse makes of the text null
JSONNull == [typeof |-> "null", circular |-> FALSE]

\* the TypeError of reading a property of null
CannotReadNull ==
    [name |-> "TypeError", message |-> [text |-> "Cannot read properties of null"]]

\* a variant of the switch that throws on a type it does not know
sqs_handleStrict(body) ==
    IF "typeof" \in DOMAIN body
    THEN IF body.typeof = "null" THEN [ok |-> FALSE, error |-> CannotReadNull]
         ELSE [ok |-> FALSE, error |-> Error("Unknown message type")]
    ELSE LET type == IF "type" \in DOMAIN body THEN body.type ELSE Undefined
         IN  CASE type = "PROCESS_ORDER" -> [ok |-> TRUE, did |-> "processOrder"]
               [] type = "SEND_EMAIL" -> [ok |-> TRUE, did |-> "sendEmail"]
               [] OTHER -> [ok |-> FALSE, error |-> Error("Unknown message type")]

\* switch (body.type): processOrder, sendEmail, or the warning for any other
\* type; reading the type of null throws, of a number or a string gives undefined
sqs_handle(body) ==
    IF "typeof" \in DOMAIN body
    THEN IF body.typeof = "null" THEN [ok |-> FALSE, error |-> CannotReadNull]
         ELSE [ok |-> TRUE, did |-> "skipped"]
    ELSE LET type == IF "type" \in DOMAIN body THEN body.type ELSE Undefined
         IN  CASE type = "PROCESS_ORDER" -> [ok |-> TRUE, did |-> "processOrder"]
               [] type = "SEND_EMAIL" -> [ok |-> TRUE, did |-> "sendEmail"]
               [] OTHER -> [ok |-> TRUE, did |-> "skipped"]

\* the try block of the callback given to Records.map
sqs_try(record) ==
    LET parsed == JSONParse(record.body)
    IN  IF parsed.ok THEN sqs_handle(parsed.value) ELSE parsed

\* a variant of the callback that does not collect the id of a failed record
sqs_processRecordNoCollect(s, record) ==
    LET tried == sqs_try(record)
    IN  IF tried.ok
        THEN [s EXCEPT !.index = @ + 1,
                       !.settled = Append(@, "fulfilled"),
                       !.attempted = Append(@, record.messageId),
                       !.did = Append(@, tried.did)]
        ELSE [s EXCEPT !.index = @ + 1,
                       !.settled = Append(@, "rejected"),
                       !.attempted = Append(@, record.messageId),
                       !.did = Append(@, "raised")]

\* the callback given to Records.map, on one record: the try block, and the
\* catch block that logs, collects the messageId and returns a rejected
\* promise; what logger.error throws leaves the callback and the handler
sqs_processRecord(s, record) ==
    LET tried == sqs_try(record)
    IN  IF tried.ok
        THEN [s EXCEPT !.index = @ + 1,
                       !.settled = Append(@, "fulfilled"),
                       !.attempted = Append(@, record.messageId),
                       !.did = Append(@, tried.did)]
        ELSE LET logged == Logger_error(<<>>, "SQSHandler", "Error processing message",
                                        tried.error)
             IN  IF logged.ok
                 THEN [s EXCEPT !.index = @ + 1,
                                !.settled = Append(@, "rejected"),
                                !.attempted = Append(@, record.messageId),
                                !.did = Append(@, "raised"),
                                !.failedMessages = Append(@, record.messageId)]
                 ELSE [s EXCEPT !.pc = "rejected",
                                !.attempted = Append(@, record.messageId),
                                !.did = Append(@, "raised"),
                                !.error = logged.thrown]

\* new Error(`Failed to process ${failedMessages.length} messages`)
FailedToProcess(count) ==
    [name |-> "Error", message |-> [text |-> "Failed to process messages", arg |-> count]]

\* sqsHandler after await Promise.allSettled(...)
sqs_afterAllSettled(s) ==
    IF Len(s.failedMessages) > 0
    THEN [s EXCEPT !.pc = "rejected", !.error = FailedToProcess(Len(s.failedMessages))]
    ELSE [s EXCEPT !.pc = "resolved"]

(***************************************************************************)
(* SpecSqs: one invocation of sqsHandler                                   *)
(***************************************************************************)

\* the records of a batch
MaxRecords == 3

\* record.body: text that is not JSON, and the texts of null, of a number, of
\* an object without a type and of objects with the two known types and
\* with another one
RecordBodies ==
    {[kind |-> "text"]}
    \cup {[kind |-> "json", value |-> v] :
            v \in {JSONNull,
                   [typeof |-> "number", circular |-> FALSE],
                   <<>>,
                   [type |-> "PROCESS_ORDER", data |-> [orderId |-> 1]],
                   [type |-> "SEND_EMAIL", data |-> [to |-> "test@example.com"]],
                   [type |-> "ARCHIVE_ORDER", data |-> [orderId |-> 1]]}}

\* the messageId of the record at a position of the batch
MessageIds == [i \in 1..(MaxRecords + 1) |-> i]

\* event.Records: up to MaxRecords records
Batches ==
    UNION {[1..n -> RecordBodies] : n \in 0..MaxRecords}

\* no invocation yet
NewSqs ==
    [pc |-> "idle",           \* "mapping", "settling", "resolved", "rejected"
     records |-> <<>>,        \* event.Records
     index |-> 0,             \* the records Records.map has gone through
     failedMessages |-> <<>>,
     settled |-> <<>>,        \* the promises given to Promise.allSettled
     error |-> <<>>,          \* what the invocation rejected with
     attempted |-> <<>>,      \* history: the messageIds the callback was called on
     did |-> <<>>]            \* history: what the callback did on each record

SqsInit == sqs = NewSqs

\* Lambda invokes sqsHandler with a batch
Sqs_Invoke ==
    /\ sqs.pc = "idle"
    /\ \E bodies \in Batches :
         sqs' = [sqs EXCEPT !.pc = "mapping",
                            !.records = [i \in DOMAIN bodies |->
                                            [messageId |-> MessageIds[i], body |-> bodies[i]]]]
    /\ UNCHANGED <<retryVars, svcVars, mwVars, bldVars, regVars, httpVars, pub, repo, conc>>

\* Records.map calls the callback on the next record
Sqs_ProcessRecord ==
    /\ sqs.pc = "mapping"
    /\ sqs.index < Len(sqs.records)
    /\ sqs' = sqs_processRecord(sqs, sqs.records[sqs.index + 1])
    /\ UNCHANGED <<retryVars, svcVars, mwVars, bldVars, regVars, httpVars, pub, repo, conc>>

\* Records.map is through: Promise.allSettled is awaited
Sqs_AwaitAll ==
    /\ sqs.pc = "mapping"
    /\ sqs.index = Len(sqs.records)
    /\ sqs' = [sqs EXCEPT !.pc = "settling"]
    /\ UNCHANGED <<retryVars, svcVars, mwVars, bldVars, regVars, httpVars, pub, repo, conc>>

\* the handler resumes after Promise.allSettled and resolves or throws
Sqs_Settle ==
    /\ sqs.pc = "settling"
    /\ sqs' = sqs_afterAllSettled(sqs)
    /\ UNCHANGED <<retryVars, svcVars, mwVars, bldVars, regVars, httpVars, pub, repo, conc>>

SqsNext == Sqs_Invoke \/ Sqs_ProcessRecord \/ Sqs_AwaitAll \/ Sqs_Settle

(***************************************************************************)
(* EventPublisher.publish and publishBatch, attempt by attempt             *)
(* (services/event-publisher)                                              *)
(***************************************************************************)

\* Entries: events.map(...) of publishBatch, the one entry of publish
putEventsEntries(events) == [i \in DOMAIN events |-> putEventsEntry(events[i])]

\* the response of PutEvents when the entries at the positions failed are
\* rejected by the bus and the others are accepted
putEventsResponse(entries, failed) ==
    [FailedEntryCount |-> Cardinality(failed),
     Entries |-> [i \in DOMAIN entries |->
                     IF i \in failed THEN [ErrorCode |-> "InternalFailure"]
                     ELSE [EventId |-> i]]]

\* new Error(`Failed to publish event(s): ${JSON.stringify(result.Entries)}`)
publishFailedError(op, response) ==
    [name |-> "Error",
     message |-> [text |-> IF op = "publish" THEN "Failed to publish event: "
                           ELSE "Failed to publish events: ",
                  arg |-> response.Entries]]

\* a variant of the attempt that fails only when no entry was accepted
publisher_attemptTolerant(op, response) ==
    IF "FailedEntryCount" \in DOMAIN response
       /\ response.FailedEntryCount >= Len(response.Entries)
       /\ response.FailedEntryCount > 0
    THEN Rejected(publishFailedError(op, response))
    ELSE Resolved(Undefined)

\* the function given to retryWithBackoff, after await this.client.send(command)
publisher_attempt(op, response) ==
    IF "FailedEntryCount" \in DOMAIN response /\ response.FailedEntryCount > 0
    THEN Rejected(publishFailedError(op, response))
    ELSE Resolved(Undefined)

\* the catch block of publish and publishBatch: logger.error(...); throw error
publisher_catch(op, error) ==
    LET logged == Logger_error(<<>>, "EventPublisher",
                               IF op = "publish"
                               THEN "Failed to publish event after retries"
                               ELSE "Failed to publish batch events after retries",
                               error)
    IN  IF logged.ok THEN error ELSE logged.thrown

(***************************************************************************)
(* SpecPublisher: one publish or publishBatch call and its bus             *)
(***************************************************************************)

\* the events of a batch
MaxBatch == 2

\* the arrays given to publishBatch
EventBatches == UNION {[1..n -> DomainEvents] : n \in 1..MaxBatch}

\* no call yet
NewPublisherCall ==
    [pc |-> "idle",        \* "running", "resolved", "rejected"
     op |-> "none",        \* "publish" or "publishBatch"
     events |-> <<>>,
     r |-> retryStart(PublisherRetryOptions),  \* the locals of retryWithBackoff
     error |-> <<>>,       \* what the call rejected with
     sent |-> <<>>,        \* history: the Entries of each PutEventsCommand sent
     responses |-> <<>>]   \* history: what client.send settled with, per attempt

PubInit == pub = NewPublisherCall

\* publish(event) runs to its first await this.client.send(command)
Publisher_Publish ==
    /\ pub.pc = "idle"
    /\ \E event \in DomainEvents :
         pub' = [pub EXCEPT !.pc = "running", !.op = "publish", !.events = <<event>>]
    /\ UNCHANGED <<retryVars, svcVars, mwVars, bldVars, regVars, httpVars, sqs, repo, conc>>

\* publishBatch(events) runs to its first await this.client.send(command)
Publisher_PublishBatch ==
    /\ pub.pc = "idle"
    /\ \E events \in EventBatches :
         pub' = [pub EXCEPT !.pc = "running", !.op = "publishBatch", !.events = events]
    /\ UNCHANGED <<retryVars, svcVars, mwVars, bldVars, regVars, httpVars, sqs, repo, conc>>

\* client.send(command) resolves: the bus has accepted some of the entries
\* and reports the others as failed; a response may leave FailedEntryCount
\* out when none failed
Publisher_SendResolves ==
    /\ pub.pc = "running"
    /\ pub.r.pc = "call"
    /\ LET entries == putEventsEntries(pub.events)
       IN  \E failed \in SUBSET (DOMAIN entries), counted \in BOOLEAN :
              /\ counted \/ failed = {}
              /\ LET full == putEventsResponse(entries, failed)
                     response == IF counted THEN full ELSE [Entries |-> full.Entries]
                 IN  /\ bus' = bus (+) BagOfAll(LAMBDA i : entries[i],
                                                SetToBag((DOMAIN entries) \ failed))
                     /\ pub' = [pub EXCEPT
                                   !.r = retryOnOutcome(@, PublisherRetryOptions,
                                                        publisher_attempt(pub.op, response)),
                                   !.sent = Append(@, entries),
                                   !.responses = Append(@, response)]
    /\ UNCHANGED <<store, clock, idsIssued, call, retryVars, mwVars, bldVars, regVars,
                   httpVars, sqs, repo, conc>>

\* client.send(command) rejects: the bus was not reached
Publisher_SendRejects ==
    /\ pub.pc = "running"
    /\ pub.r.pc = "call"
    /\ pub' = [pub EXCEPT
                  !.r = retryOnOutcome(@, PublisherRetryOptions, Rejected(BusUnavailable)),
                  !.sent = Append(@, putEventsEntries(pub.events)),
                  !.responses = Append(@, [threw |-> BusUnavailable])]
    /\ UNCHANGED <<retryVars, svcVars, mwVars, bldVars, regVars, httpVars, sqs, repo, conc>>

\* the timer of retryWithBackoff's sleep fires
Publisher_Wake ==
    /\ pub.pc = "running"
    /\ pub.r.pc = "sleep"
    /\ pub' = [pub EXCEPT !.r = retryAfterSleep(@, PublisherRetryOptions)]
    /\ UNCHANGED <<retryVars, svcVars, mwVars, bldVars, regVars, httpVars, sqs, repo, conc>>

\* retryWithBackoff has returned or thrown: the call resolves, or rejects
\* through its catch block
Publisher_Settle ==
    /\ pub.pc = "running"
    /\ pub.r.pc \in {"returned", "thrown"}
    /\ pub' = IF pub.r.pc = "returned"
              THEN [pub EXCEPT !.pc = "resolved"]
              ELSE [pub EXCEPT !.pc = "rejected",
                               !.error = publisher_catch(pub.op, pub.r.thrown)]
    /\ UNCHANGED <<retryVars, svcVars, mwVars, bldVars, regVars, httpVars, sqs, repo, conc>>

PublisherNext ==
    \/ Publisher_Publish \/ Publisher_PublishBatch
    \/ Publisher_SendResolves \/ Publisher_SendRejects
    \/ Publisher_Wake \/ Publisher_Settle

(***************************************************************************)
(* SpecRepository: one call of a DynamoDBRepository method, attempt by      *)
(* attempt (utils/dynamodb-repository)                                      *)
(***************************************************************************)

\* another error of the store's client
StoreThrottled ==
    [name |-> "ProvisionedThroughputExceededException", message |-> [text |-> "throttled"]]

StoreErrors == {StoreUnavailable, StoreThrottled}

\* the message each method's catch block logs
repository_errorMessage(op) ==
    CASE op = "findById" -> "Error finding item by ID"
      [] op = "findAll" -> "Error finding all items"
      [] op = "save" -> "Error saving item"
      [] op = "update" -> "Error updating item"
      [] op = "delete" -> "Error deleting item"
      [] op = "queryByIndex" -> "Error querying by index"

\* the catch block of every method: this.logger.error(...); throw error
repository_catch(op, error) ==
    LET logged == Logger_error(<<>>, "DynamoDBRepository", repository_errorMessage(op), error)
    IN  IF logged.ok THEN error ELSE logged.thrown

\* what the method makes of one docClient.send that resolves on the table st
repository_sent(st, op, args) ==
    LET once == <<Resolved("response")>>
    IN  CASE op = "findById" -> repository_findById(st, args.id, once)
          [] op = "findAll" -> repository_findAll(st, args.params, once)
          [] op = "save" -> repository_save(st, args.entity, once)
          [] op = "update" -> repository_update(st, args.id, args.updates, once)
          [] op = "delete" -> repository_delete(st, args.id, once)
          [] op = "queryByIndex" ->
                 repository_queryByIndex(st, args.customerId, args.params, once)

\* a variant of repository_settle whose catch block returns null
repository_settleSwallows(c) ==
    IF c.r.pc = "returned"
    THEN [c EXCEPT !.pc = "resolved", !.result = c.r.result]
    ELSE [c EXCEPT !.pc = "resolved", !.result = <<>>]

\* retryWithBackoff has returned or thrown: the method returns what it makes of
\* the result, or rejects through its catch block
repository_settle(c) ==
    IF c.r.pc = "returned"
    THEN [c EXCEPT !.pc = "resolved", !.result = c.r.result]
    ELSE [c EXCEPT !.pc = "rejected", !.error = repository_catch(c.op, c.r.thrown)]

\* the order a createOrder would save next
LaterOrder(request) == createOrder_begin(request, FirstId + 1, 0).order

\* no call yet
NewRepositoryCall ==
    [pc |-> "idle",        \* "running", "resolved", "rejected"
     op |-> "none",
     args |-> <<>>,
     r |-> retryStart(RepositoryRetryOptions),  \* the locals of retryWithBackoff
     result |-> <<>>,
     error |-> <<>>,       \* what the call rejected with
     sends |-> <<>>]       \* history: what docClient.send settled with, per call

RepoInit == repo = NewRepositoryCall

\* the method runs to its first await this.docClient.send(...)
repository_begin(op, args) ==
    [repo EXCEPT !.pc = "running", !.op = op, !.args = args]

Repository_FindById ==
    /\ repo.pc = "idle"
    /\ \E id \in OrderIds : repo' = repository_begin("findById", [id |-> id])
    /\ UNCHANGED <<retryVars, svcVars, mwVars, bldVars, regVars, httpVars, sqs, pub, conc>>

Repository_FindAll ==
    /\ repo.pc = "idle"
    /\ \E limit \in 1..2 : repo' = repository_begin("findAll", [params |-> [limit |-> limit]])
    /\ UNCHANGED <<retryVars, svcVars, mwVars, bldVars, regVars, httpVars, sqs, pub, conc>>

Repository_Save ==
    /\ repo.pc = "idle"
    /\ \E request \in CreateRequests :
         repo' = repository_begin("save", [entity |-> LaterOrder(request)])
    /\ UNCHANGED <<retryVars, svcVars, mwVars, bldVars, regVars, httpVars, sqs, pub, conc>>

Repository_Update ==
    /\ repo.pc = "idle"
    /\ \E id \in OrderIds :
         repo' = repository_begin("update",
                     [id |-> id,
                      updates |-> [updatedAt |-> 1, version |-> 2, status |-> "SHIPPED"]])
    /\ UNCHANGED <<retryVars, svcVars, mwVars, bldVars, regVars, httpVars, sqs, pub, conc>>

Repository_Delete ==
    /\ repo.pc = "idle"
    /\ \E id \in OrderIds : repo' = repository_begin("delete", [id |-> id])
    /\ UNCHANGED <<retryVars, svcVars, mwVars, bldVars, regVars, httpVars, sqs, pub, conc>>

Repository_QueryByIndex ==
    /\ repo.pc = "idle"
    /\ \E customerId \in {"customer-123", "customer-456"} :
         repo' = repository_begin("queryByIndex",
                     [customerId |-> customerId, params |-> [limit |-> 1]])
    /\ UNCHANGED <<retryVars, svcVars, mwVars, bldVars, regVars, httpVars, sqs, pub, conc>>

\* docClient.send(command) resolves: the table has carried the command out
Repository_SendResolves ==
    /\ repo.pc = "running"
    /\ repo.r.pc = "call"
    /\ LET res == repository_sent(store, repo.op, repo.args)
       IN  /\ store' = res.store
           /\ repo' = [repo EXCEPT
                          !.r = retryOnOutcome(@, RepositoryRetryOptions, Resolved(res.value)),
                          !.sends = Append(@, [ok |-> TRUE])]
    /\ UNCHANGED <<bus, clock, idsIssued, call, retryVars, mwVars, bldVars, regVars,
                   httpVars, sqs, pub, conc>>

\* docClient.send(command) rejects: the table is as it was
Repository_SendRejects ==
    /\ repo.pc = "running"
    /\ repo.r.pc = "call"
    /\ \E error \in StoreErrors :
         repo' = [repo EXCEPT
                     !.r = retryOnOutcome(@, RepositoryRetryOptions, Rejected(error)),
                     !.sends = Append(@, [ok |-> FALSE, error |-> error])]
    /\ UNCHANGED <<retryVars, svcVars, mwVars, bldVars, regVars, httpVars, sqs, pub, conc>>

\* the timer of retryWithBackoff's sleep fires
Repository_Wake ==
    /\ repo.pc = "running"
    /\ repo.r.pc = "sleep"
    /\ repo' = [repo EXCEPT !.r = retryAfterSleep(@, RepositoryRetryOptions)]
    /\ UNCHANGED <<retryVars, svcVars, mwVars, bldVars, regVars, httpVars, sqs, pub, conc>>

\* the method returns or rejects
Repository_Settle ==
    /\ repo.pc = "running"
    /\ repo.r.pc \in {"returned", "thrown"}
    /\ repo' = repository_settle(repo)
    /\ UNCHANGED <<retryVars, svcVars, mwVars, bldVars, regVars, httpVars, sqs, pub, conc>>

RepositoryNext ==
    \/ Repository_FindById \/ Repository_FindAll \/ Repository_Save
    \/ Repository_Update \/ Repository_Delete \/ Repository_QueryByIndex
    \/ Repository_SendResolves \/ Repository_SendRejects
    \/ Repository_Wake \/ Repository_Settle

(***************************************************************************)
(* SpecConcurrent: one handler made by withMiddleware serves several       *)
(* requests whose awaits interleave (middleware/lambda-middleware)         *)
(***************************************************************************)

MaxRequests == 2

Requests == 1..MaxRequests

\* a variant of compose_scope: one index for the composed middleware, declared
\* beside the middlewares and shared by its invocations
compose_scopeShared(q) == 0

\* let index = 0 stands inside the function composeMiddleware returns: every
\* invocation q has an index of its own
compose_scope(q) == q

\* next() from index on, down to the first await that does not settle at
\* once: the middlewares entered on the way, and whether handler() was called.
\* validationMiddleware throws instead of calling next() when the body is not
\* valid.
RECURSIVE compose_descend(_, _, _)
compose_descend(middlewares, index, valid) ==
    IF index < Len(middlewares)
    THEN LET name == compose_pick(middlewares, index)
         IN  IF name = "validation" /\ ~valid
             THEN [index |-> index + 1, entered |-> <<name>>, handler |-> FALSE]
             ELSE LET rest == compose_descend(middlewares, index + 1, valid)
                  IN  [rest EXCEPT !.entered = <<name>> \o @]
    ELSE [index |-> index, entered |-> <<>>, handler |-> TRUE]

\* the events of request q
EventsOfRequest(q) == {[requestId |-> q, body |-> b] : b \in {"valid", "invalid"}}

\* a request that has not arrived
NewInvocation ==
    [pc |-> "idle",          \* "handler", "unwinding", "responded", "escaped"
     event |-> <<>>,
     entered |-> <<>>,       \* history: the middlewares entered, in order
     depth |-> 0,            \* the middlewares awaiting their next()
     outcome |-> "none",     \* "returned" or "threw": how the innermost await settled
     handlerEvents |-> <<>>] \* history: the events handler() was called with

\* withMiddleware(handler, ...middlewares) has made the handler; no request has
\* arrived, and an index reads 0 when its declaration runs
ConcInit ==
    \E chain \in Chains :
        conc = [chain |-> chain,
                index |-> [scope \in {0} \cup Requests |-> 0],
                req |-> [q \in Requests |-> NewInvocation]]

\* no composed handler under observation
ConcParked == conc = <<>>

\* request q arrives: composed(event, context, () => handler(event, context))
\* runs down the chain to the handler's first await, or to the throw of
\* validationMiddleware
Conc_Invoke(q) ==
    /\ conc.req[q].pc = "idle"
    /\ \E event \in EventsOfRequest(q) :
         LET scope == compose_scope(q)
             down == compose_descend(conc.chain, conc.index[scope], event.body = "valid")
         IN  conc' = [conc EXCEPT
                         !.index[scope] = down.index,
                         !.req[q] = [@ EXCEPT
                             !.pc = IF down.handler THEN "handler" ELSE "unwinding",
                             !.event = event,
                             !.entered = down.entered,
                             !.depth = IF down.handler THEN Len(down.entered)
                                       ELSE Len(down.entered) - 1,
                             !.outcome = IF down.handler THEN "none" ELSE "threw",
                             !.handlerEvents = IF down.handler THEN <<event>> ELSE <<>>]]
    /\ UNCHANGED <<retryVars, svcVars, mwVars, bldVars, regVars, httpVars, sqs, pub, repo>>

\* the handler of request q returns a response
Conc_HandlerReturns(q) ==
    /\ conc.req[q].pc = "handler"
    /\ conc' = [conc EXCEPT !.req[q].pc = "unwinding", !.req[q].outcome = "returned"]
    /\ UNCHANGED <<retryVars, svcVars, mwVars, bldVars, regVars, httpVars, sqs, pub, repo>>

\* the handler of request q throws an Error
Conc_HandlerThrows(q) ==
    /\ conc.req[q].pc = "handler"
    /\ conc' = [conc EXCEPT !.req[q].pc = "unwinding", !.req[q].outcome = "threw"]
    /\ UNCHANGED <<retryVars, svcVars, mwVars, bldVars, regVars, httpVars, sqs, pub, repo>>

\* the await next() of the innermost waiting middleware of request q resumes:
\* errorHandlerMiddleware turns a thrown Error into a response, the others
\* pass on what they got
Conc_Resume(q) ==
    /\ conc.req[q].pc = "unwinding"
    /\ conc.req[q].depth > 0
    /\ conc' = [conc EXCEPT
                   !.req[q].depth = @ - 1,
                   !.req[q].outcome =
                       IF conc.req[q].entered[conc.req[q].depth] = "errorHandler"
                       THEN "returned" ELSE @]
    /\ UNCHANGED <<retryVars, svcVars, mwVars, bldVars, regVars, httpVars, sqs, pub, repo>>

\* the promise of request q settles
Conc_Settle(q) ==
    /\ conc.req[q].pc = "unwinding"
    /\ conc.req[q].depth = 0
    /\ conc' = [conc EXCEPT
                   !.req[q].pc = IF conc.req[q].outcome = "returned"
                                 THEN "responded" ELSE "escaped"]
    /\ UNCHANGED <<retryVars, svcVars, mwVars, bldVars, regVars, httpVars, sqs, pub, repo>>

ConcurrentNext ==
    \E q \in Requests :
        \/ Conc_Invoke(q)
        \/ Conc_HandlerReturns(q) \/ Conc_HandlerThrows(q)
        \/ Conc_Resume(q) \/ Conc_Settle(q)

(***************************************************************************)
(* The specifications                                                      *)
(***************************************************************************)

\* nothing but the part under observation is in use
OthersInit ==
    BuilderInit /\ RegistryInit /\ HttpInit /\ SqsInit /\ PubInit /\ RepoInit /\ ConcParked

Init == RetryParked /\ SvcInit /\ MwInit /\ OthersInit
InitRetry == RetryInit /\ SvcParked /\ MwInit /\ OthersInit
InitMw == RetryParked /\ SvcParked /\ MwInit /\ OthersInit
InitConcurrent ==
    /\ RetryParked /\ SvcParked /\ MwInit
    /\ BuilderInit /\ RegistryInit /\ HttpInit /\ SqsInit /\ PubInit /\ RepoInit /\ ConcInit

\* createOrder, updateOrder and deleteOrder invocations
Spec == Init /\ [][Next]_vars
\* createOrder and updateOrder invocations only
SpecCU == Init /\ [][NextCU]_vars
\* one retryWithBackoff call
SpecRetry == InitRetry /\ [][RetryNext]_vars
\* one request through a composed chain
SpecMw == InitMw /\ [][MwNext]_vars
\* one OrderBuilder
SpecBuilder == InitMw /\ [][BuilderNext]_vars
\* an EventHandlerRegistry and the EventBridge entry point
SpecRegistry == InitMw /\ [][RegistryNext]_vars
\* one API Gateway request through an order handler
SpecHttp == Init /\ [][HttpNext]_vars
\* one invocation of sqsHandler
SpecSqs == InitMw /\ [][SqsNext]_vars
\* one publish or publishBatch call
SpecPublisher == InitMw /\ [][PublisherNext]_vars
\* one call of a DynamoDBRepository method
SpecRepository == Init /\ [][RepositoryNext]_vars
\* several requests served at once by one composed handler
SpecConcurrent == InitConcurrent /\ [][ConcurrentNext]_vars

(***************************************************************************)
(* Claims about OrderService, checked under Spec and SpecCU                *)
(***************************************************************************)

\* the sum of quantity * price over the lines of an order
RECURSIVE SumOfLines(_)
SumOfLines(items) ==
    IF items = <<>> THEN 0
    ELSE Head(items).quantity * Head(items).price + SumOfLines(Tail(items))

\* the calls of an operation that still hold their locals
Running(op) ==
    {p \in Calls : call[p].op = op /\ call[p].pc \notin {"idle", "resolved", "rejected"}}

\* the updateOrder calls made on an order so far
UpdatesOf(id) ==
    {p \in Calls : IF call[p].op = "updateOrder" THEN call[p].req.orderId = id ELSE FALSE}

\* the updateOrder calls that resolved
CompletedUpdates == {p \in Calls : call[p].op = "updateOrder" /\ call[p].pc \in {"done", "resolved"}}

SavedThenPublished == <<"save", "publish">>
FoundThenDeleted == <<"findById", "delete">>
FoundDeletedPublished == <<"findById", "delete", "publish">>

\* C1: whenever every updateOrder call made on a stored order has completed
\* successfully (none is in flight, none was rejected), the stored version is
\* 1 plus the number of those calls; in particular it is 1 while no update has
\* been made on the order.
C1_VersionCountsCompletedUpdates ==
    \A id \in DOMAIN store :
        (UpdatesOf(id) \subseteq CompletedUpdates) =>
            store[id].version = 1 + Cardinality(UpdatesOf(id))

\* C2: every stored order carries items and a totalAmount, and the totalAmount
\* is the sum of quantity * price over the stored items.
C2_TotalAmountMatchesItems ==
    \A id \in DOMAIN store :
        /\ {"items", "totalAmount"} \subseteq DOMAIN store[id]
        /\ store[id].totalAmount = SumOfLines(store[id].items)

\* an update has replaced the items of a stored order and its total follows
C2_Witness ==
    \E id \in DOMAIN store :
        /\ store[id].version = 2
        /\ store[id].items = ItemsC
        /\ store[id].totalAmount = 21
        /\ \E p \in Running("updateOrder") :
             call[p].req.orderId = id /\ "items" \in DOMAIN call[p].applied

\* C3: createOrder calls the publisher only after repository.save succeeded
\* (a failed save leaves no event), the ORDER_CREATED event carries the
\* orderId, customerId, items, totalAmount and createdAt of the order as
\* stored by the save, a resolved createOrder returns that stored order, and
\* every ORDER_CREATED entry on the bus comes from a createOrder that resolved.
C3_CreatePublishesAfterSave ==
    /\ \A p \in Running("createOrder") :
         LET c == call[p]
         IN  /\ c.log \in {<<>>, <<"save">>, SavedThenPublished}
             /\ c.stored = <<>> => c.event = <<>> /\ c.log # SavedThenPublished
             /\ c.log = SavedThenPublished =>
                  /\ c.stored # <<>>
                  /\ c.event.type = "ORDER_CREATED"
                  /\ DOMAIN c.event.payload =
                         {"orderId", "customerId", "items", "totalAmount", "createdAt"}
                  /\ \A k \in DOMAIN c.event.payload : c.event.payload[k] = c.stored[k]
             /\ c.pc = "done" =>
                  /\ c.log = SavedThenPublished
                  /\ c.result = c.stored
                  /\ BagIn(putEventsEntry(c.event), bus)
    /\ \A e \in BagToSet(bus) :
         e.DetailType = "ORDER_CREATED" =>
             \E p \in Calls :
                 /\ call[p].op = "createOrder"
                 /\ call[p].pc \in {"done", "resolved"}
                 /\ e.Detail.orderId = IF call[p].pc = "done" THEN call[p].stored.orderId
                                      ELSE call[p].req.orderId

\* a createOrder has resolved with the stored order, metadata included, and
\* its event is on the bus
C3_Witness ==
    \E p \in Running("createOrder") :
        /\ call[p].pc = "done"
        /\ "metadata" \in DOMAIN call[p].result
        /\ call[p].result = call[p].stored
        /\ call[p].result.totalAmount = 35
        /\ BagIn(putEventsEntry(orderCreatedEvent(call[p].stored)), bus)

\* the keys updateOrder adds for the fields of the request
SuppliedKeys(request) ==
    (IF "items" \in DOMAIN request THEN {"items", "totalAmount"} ELSE {})
    \cup ((DOMAIN request) \cap {"status", "shippingAddress"})

\* C4: the map an updateOrder applied to the store has the keys updatedAt and
\* version, the keys items and totalAmount when items was supplied, status
\* when status was supplied, shippingAddress when it was supplied, and no
\* other key; version is the version read plus 1, the supplied values are
\* written as given with totalAmount recomputed from the supplied items, the
\* item returned by the store carries them, and the ORDER_UPDATED event's
\* updates is that same map.
C4_AppliedMapMatchesRequest ==
    \A p \in Running("updateOrder") :
        LET c == call[p]
        IN  (c.applied # <<>>) =>
              /\ DOMAIN c.applied = {"updatedAt", "version"} \cup SuppliedKeys(c.req)
              /\ c.applied.version = c.existing.version + 1
              /\ "items" \in DOMAIN c.req =>
                   /\ c.applied.items = c.req.items
                   /\ c.applied.totalAmount = SumOfLines(c.req.items)
              /\ "status" \in DOMAIN c.req => c.applied.status = c.req.status
              /\ "shippingAddress" \in DOMAIN c.req =>
                   c.applied.shippingAddress = c.req.shippingAddress
              /\ \A k \in DOMAIN c.applied : c.order[k] = c.applied[k]
              /\ c.event.type = "ORDER_UPDATED"
              /\ c.event.payload.updates = c.applied
              /\ c.pc = "done" => BagIn(putEventsEntry(c.event), bus)

\* a status-only update of an order read at version 1 has resolved
C4_Witness ==
    \E p \in Running("updateOrder") :
        /\ call[p].pc = "done"
        /\ DOMAIN call[p].req = {"orderId", "status"}
        /\ call[p].existing.version = 1
        /\ DOMAIN call[p].applied = {"updatedAt", "version", "status"}
        /\ call[p].applied.version = 2
        /\ call[p].event.payload.updates = call[p].applied

\* C5: an updateOrder whose findById found no order under the id rejects with
\* "Order not found: {id}" having called neither repository.update nor the
\* publisher, and the step in which it does so changes neither the store nor
\* the bus.
C5_UpdateAbsentOrderRejected ==
    /\ [](\A p \in Running("updateOrder") :
            call[p].absentAtRead =>
                /\ call[p].pc = "failed"
                /\ call[p].error = NotFoundError(call[p].req.orderId)
                /\ call[p].log = <<"findById">>
                /\ call[p].updates = <<>>
                /\ call[p].applied = <<>>
                /\ call[p].event = <<>>)
    /\ [][\A p \in Calls :
            (call[p].pc = "idle" /\ call'[p].op = "updateOrder" /\ call'[p].absentAtRead)
                => (store' = store /\ bus' = bus)]_vars

\* an updateOrder on an id that was never stored has been rejected
C5_Witness ==
    \E p \in Running("updateOrder") :
        /\ call[p].absentAtRead
        /\ call[p].req.orderId \notin DOMAIN store
        /\ "status" \in DOMAIN call[p].req
        /\ call[p].pc = "failed"
        /\ call[p].error = NotFoundError(call[p].req.orderId)

\* C6: a deleteOrder calls findById, then repository.delete, then the
\* publisher, in that order and each at most once; the event it publishes is
\* ORDER_DELETED with the orderId and the reason it was given, handed to the
\* publisher in the step in which the delete removed the order; when findById
\* found no order it rejects with "Order not found: {id}" having called
\* neither, in a step that changes neither the store nor the bus.
C6_DeleteOrderSteps ==
    /\ [](\A p \in Running("deleteOrder") :
            LET c == call[p]
            IN  /\ c.log \in {<<"findById">>, FoundThenDeleted, FoundDeletedPublished}
                /\ c.absentAtRead =>
                     /\ c.pc = "failed"
                     /\ c.error = NotFoundError(c.req.orderId)
                     /\ c.log = <<"findById">>
                     /\ c.event = <<>>
                /\ (c.event # <<>>) <=> (c.log = FoundDeletedPublished)
                /\ c.event # <<>> =>
                     /\ c.event.type = "ORDER_DELETED"
                     /\ c.event.payload.orderId = c.req.orderId
                     /\ c.event.payload.reason = c.req.reason
                /\ c.pc = "done" =>
                     /\ c.log = FoundDeletedPublished
                     /\ BagIn(putEventsEntry(c.event), bus))
    /\ [][\A p \in Calls :
            /\ (call[p].pc = "idle" /\ call'[p].op = "deleteOrder" /\ call'[p].absentAtRead)
                 => (store' = store /\ bus' = bus)
            /\ (call[p].pc = "delete" /\ call'[p].pc = "publish")
                 => call[p].req.orderId \notin DOMAIN store']_vars

\* a deleteOrder given a reason has gone through its three steps and resolved
C6_Witness ==
    \E p \in Running("deleteOrder") :
        /\ call[p].pc = "done"
        /\ call[p].req.reason = "Customer requested"
        /\ call[p].log = FoundDeletedPublished
        /\ call[p].req.orderId \notin DOMAIN store
        /\ BagIn(putEventsEntry(call[p].event), bus)

(***************************************************************************)
(* Claims about the error boundary, checked under SpecMw                   *)
(***************************************************************************)

\* C10: whatever errorHandlerMiddleware catches from the inner chain, it
\* throws nothing and returns a response: 400 with code VALIDATION_ERROR for
\* a ZodError, 500 with the error's message for any other Error, 500 with
\* 'Internal server error' for a value that is not an Error.
C10_ErrorBoundaryAlwaysResponds ==
    (mw.boundary # <<>>) =>
        /\ ~mw.boundary.threw
        /\ LET error == mw.boundary.caught
               response == mw.boundary.result
           IN  IF isZodError(error)
               THEN response.statusCode = 400 /\ response.body.code = "VALIDATION_ERROR"
               ELSE IF isError(error)
               THEN response.statusCode = 500 /\ response.body.error.message = error.message
               ELSE /\ response.statusCode = 500
                    /\ response.body.error.message = [text |-> "Internal server error"]

(***************************************************************************)
(* Claims about OrderBuilder, checked under SpecBuilder                    *)
(***************************************************************************)

\* the required fields in the order build() is to check them
RequiredFields == <<"orderId", "customerId", "customerEmail", "items", "shippingAddress">>

RequiredMessage(i) ==
    CASE i = 1 -> "Order ID is required"
      [] i = 2 -> "Customer ID is required"
      [] i = 3 -> "Customer email is required"
      [] i = 4 -> "Order must have at least one item"
      [] i = 5 -> "Shipping address is required"

\* the i-th required field was never set, or set to the empty string (an id,
\* the email) or to an empty array (items)
IsMissing(order, i) ==
    IF RequiredFields[i] \notin DOMAIN order THEN TRUE
    ELSE CASE i = 1 -> order.orderId = EmptyId
           [] i = 2 -> order.customerId = ""
           [] i = 3 -> order.customerEmail = ""
           [] i = 4 -> order.items = <<>>
           [] OTHER -> FALSE

MissingFields(order) == {i \in 1..5 : IsMissing(order, i)}

\* C20: build() throws exactly when a required field is missing, and then the
\* error is the message of the first missing field in the order order id,
\* customer id, customer email, items, shipping address, whatever else is
\* missing; with the five present it returns an order.
C20_BuildRaisesFirstMissing ==
    LET missing == MissingFields(builder.order)
    IN  /\ builder.pc = "threw" =>
             /\ missing # {}
             /\ \E i \in missing :
                  /\ \A j \in missing : i <= j
                  /\ builder.error = Error(RequiredMessage(i))
        /\ builder.pc = "built" => missing = {} /\ builder.result # <<>>
        /\ builder.pc \in {"built", "threw"} => ((missing = {}) <=> (builder.pc = "built"))

\* build() has thrown for the customer id with the email, the items and the
\* address missing too
C20_Witness ==
    /\ builder.pc = "threw"
    /\ MissingFields(builder.order) = {2, 3, 4, 5}
    /\ "customerId" \in DOMAIN builder.order
    /\ builder.error = Error("Customer ID is required")

(***************************************************************************)
(* Claims about EventHandlerRegistry, checked under SpecRegistry           *)
(***************************************************************************)

\* the positions in a sequence of register calls that name the event type
RegistrationsOf(registrations, eventType) ==
    {i \in DOMAIN registrations : registrations[i].eventType = eventType}

\* the handler of the last register call that names the event type
LastRegistered(registrations, eventType) ==
    LET at == RegistrationsOf(registrations, eventType)
    IN  registrations[CHOOSE i \in at : \A j \in at : j <= i].handler

\* C17: a dispatch of an event for whose type no register call was made
\* resolves and calls no handler, and an EventBridge invocation for such an
\* event resolves too.
C17_UnregisteredTypeResolves ==
    (disp.pc # "idle" /\ RegistrationsOf(disp.registeredAtCall, disp.event.type) = {}) =>
        /\ disp.pc = "resolved"
        /\ disp.invoked = <<>>
        /\ disp.error = <<>>
        /\ disp.entry = "eventBridge" => disp.entryPc \in {"awaiting", "resolved"}

\* the EventBridge entry point has resolved for a detail type that has no handler
C17_Witness ==
    /\ disp.entry = "eventBridge"
    /\ disp.event.type = "INVENTORY_ADJUSTED"
    /\ disp.entryPc = "resolved"
    /\ disp.invoked = <<>>

\* C18: when the handler of the event's type throws, dispatch rejects with
\* the very value thrown, and eventBridgeHandler rejects with it too.
C18_HandlerErrorPropagates ==
    /\ disp.thrown # <<>> => disp.pc = "rejected"
    /\ disp.pc = "rejected" =>
         /\ disp.error = disp.thrown
         /\ disp.entryPc \in {"none", "awaiting", "rejected"}
         /\ disp.entryPc = "rejected" => disp.entryError = disp.thrown

\* C19: the handlers map holds, for each type, the handler of the last
\* register call that named it and nothing for a type never named; a
\* dispatch calls handle once, with the event it was given, on the handler
\* last registered for the event's type before the dispatch, and calls no
\* other handler.
C19_LastRegisteredHandlerDispatched ==
    /\ \A eventType \in RegisteredTypes :
         IF RegistrationsOf(registry.registered, eventType) = {}
         THEN eventType \notin DOMAIN registry.handlers
         ELSE /\ eventType \in DOMAIN registry.handlers
              /\ registry.handlers[eventType] = LastRegistered(registry.registered, eventType)
    /\ DOMAIN registry.handlers \subseteq RegisteredTypes
    /\ disp.pc # "idle" =>
         IF RegistrationsOf(disp.registeredAtCall, disp.event.type) = {}
         THEN disp.invoked = <<>>
         ELSE disp.invoked =
                  <<[handler |-> LastRegistered(disp.registeredAtCall, disp.event.type),
                     event |-> disp.event]>>

\* a type was registered twice with different handlers and the dispatch has
\* called the second one
C19_Witness ==
    /\ disp.entry = "dispatch"
    /\ disp.pc = "resolved"
    /\ disp.registeredAtCall =
           << [eventType |-> "ORDER_CREATED", handler |-> "handlerA"],
              [eventType |-> "ORDER_UPDATED", handler |-> "handlerA"],
              [eventType |-> "ORDER_CREATED", handler |-> "handlerB"] >>
    /\ disp.event.type = "ORDER_CREATED"
    /\ Len(disp.invoked) = 1
    /\ disp.invoked[1].handler = "handlerB"
    /\ disp.invoked[1].event = disp.event

(***************************************************************************)
(* Claims about the HTTP handlers, checked under SpecHttp                  *)
(***************************************************************************)

\* the response the client has received
Responded == mw.pc = "responded"

\* the request is for the route and event.body is the text of value
RequestWithBody(route, value) ==
    /\ http.route = route
    /\ "body" \in DOMAIN http.event
    /\ http.event.body = [kind |-> "json", value |-> value]

\* the parsed bodies of POST /orders that violate createOrderSchema
ViolatingBodies == CreateBodies \ {CreateBodyA, CreateBodyB}

\* the request is a POST /orders whose body is null or violates the schema
ViolatingCreateRequest ==
    /\ http.route = "createOrder"
    /\ IF "body" \in DOMAIN http.event
       THEN \E value \in ViolatingBodies :
               http.event.body = [kind |-> "json", value |-> value]
       ELSE TRUE

\* the ORDER_CREATED entries on the bus
CreatedEntries == {e \in BagToSet(bus) : e.DetailType = "ORDER_CREATED"}

C12_ValidCreateIs201 ==
    (http.route = "createOrder" /\ Responded /\ call[1].pc = "done") =>
        LET data == mw.value.body.data
        IN  /\ mw.value.statusCode = 201
            /\ mw.value.body.success
            /\ data.version = 1
            /\ data.status = "PENDING"
            /\ data.totalAmount = SumOfLines(data.items)
            /\ idsIssued = FirstId + 1
            /\ data.orderId = idsIssued
            /\ data.orderId \in DOMAIN store
            /\ store[data.orderId] = data
            /\ DOMAIN store \subseteq {FirstId, data.orderId}
            /\ http.serviceCalls = 1
            /\ BagCardinality(bus) = 1
            /\ \E e \in CreatedEntries :
                 /\ e.Detail.orderId = data.orderId
                 /\ e.Detail.totalAmount = data.totalAmount

\* the body without a country has been answered with 201, the total 60
C12_Witness ==
    /\ RequestWithBody("createOrder", CreateBodyA)
    /\ Responded
    /\ mw.value.statusCode = 201
    /\ mw.value.body.data.totalAmount = 60
    /\ mw.value.body.data.shippingAddress.country = "US"
    /\ BagCardinality(bus) = 1

\* the orderId path parameter is there and is not empty
OrderIdGiven ==
    IF hasOrderId(http.event) THEN http.event.pathParameters.orderId # EmptyId ELSE FALSE

\* C13: GET /orders/{orderId} is answered with 400, and the service is not
\* called, when the path parameter is missing or empty; with 404 and code
\* NOT_FOUND when getOrder resolves with null; with 200 and the order when it
\* resolves with one. getOrder resolves with null, and does not reject, when
\* findById read the table and the order was absent.
C13_GetOrderResponses ==
    http.route = "getOrder" =>
        /\ ~OrderIdGiven =>
             /\ http.serviceCalls = 0
             /\ call[1] = NewCall
             /\ Responded => /\ mw.value.statusCode = 400
                             /\ mw.value.body.code = "VALIDATION_ERROR"
        /\ call[1].absentAtRead => call[1].pc = "done" /\ call[1].result = <<>>
        /\ (call[1].pc = "done" /\ call[1].result = <<>> /\ Responded) =>
             /\ mw.value.statusCode = 404
             /\ mw.value.body.success = FALSE
             /\ mw.value.body.code = "NOT_FOUND"
        /\ (call[1].pc = "done" /\ call[1].result # <<>> /\ Responded) =>
             /\ mw.value.statusCode = 200
             /\ mw.value.body.data = store[http.event.pathParameters.orderId]
        /\ (Responded /\ mw.value.statusCode \in {200, 404}) => call[1].pc = "done"

\* a GET for an order the table does not hold has been answered with 404
C13_Witness ==
    /\ http.route = "getOrder"
    /\ Responded
    /\ mw.value.statusCode = 404
    /\ call[1].absentAtRead
    /\ call[1].pc = "done"

\* C14: when updateOrder or deleteOrder rejected with its "Order not found"
\* error, the response to the PUT or DELETE has status 404.
C14_NotFoundIs404 ==
    (/\ http.route \in {"updateOrder", "deleteOrder"}
     /\ Responded
     /\ call[1].pc = "failed"
     /\ call[1].error = NotFoundError(call[1].req.orderId)) =>
        mw.value.statusCode = 404

\* C15: when the service call rejected with the error of a store or bus
\* command that failed through all its attempts, the response has status 500
\* and code EXTERNAL_SERVICE_ERROR.
C15_InfraFailureIsExternalServiceError ==
    (/\ Responded
     /\ call[1].pc = "failed"
     /\ call[1].error \in {StoreUnavailable, BusUnavailable, PublishFailed}) =>
        /\ mw.value.statusCode = 500
        /\ mw.value.body.code = "EXTERNAL_SERVICE_ERROR"

\* C16: every response of the five handlers carries each of the CORS headers
\* with its fixed value.
C16_ResponsesCarryCorsHeaders ==
    (http.route \in Routes /\ Responded) =>
        \A h \in DOMAIN corsHeaders :
            /\ h \in DOMAIN mw.value.headers
            /\ mw.value.headers[h] = corsHeaders[h]

\* the 400 of getOrderHandler, built with a Content-Type header only, has
\* been answered
C16_Witness ==
    /\ http.route = "getOrder"
    /\ ~OrderIdGiven
    /\ http.serviceCalls = 0
    /\ Responded
    /\ mw.value.statusCode = 400
    /\ "Access-Control-Allow-Origin" \in DOMAIN mw.value.headers

(***************************************************************************)
(* More claims about OrderBuilder, checked under SpecBuilder               *)
(***************************************************************************)

\* C21: the order build() returns has totalAmount equal to the sum of
\* quantity * price over its items, version 1, createdAt equal to updatedAt,
\* and the status given to withStatus, or PENDING when withStatus was not
\* called; its other fields are those the builder was given.
C21_BuiltOrderFields ==
    builder.pc = "built" =>
        /\ builder.result.totalAmount = SumOfLines(builder.result.items)
        /\ builder.result.version = 1
        /\ builder.result.createdAt = builder.result.updatedAt
        /\ builder.result.status = IF "status" \in DOMAIN builder.order
                                   THEN builder.order.status ELSE "PENDING"
        /\ \A k \in DOMAIN builder.order :
             k \notin {"status", "version"} => builder.result[k] = builder.order[k]

\* an order of two lines was built after withStatus('PROCESSING')
C21_Witness ==
    /\ builder.pc = "built"
    /\ builder.result.items = ItemsB
    /\ builder.result.totalAmount = 35
    /\ builder.result.status = "PROCESSING"
    /\ builder.result.createdAt = 1

(***************************************************************************)
(* Claims about sqsHandler, checked under SpecSqs                          *)
(***************************************************************************)

\* the try block throws on the body: the text is not JSON, or it is null
RaisesOn(body) ==
    IF body.kind = "json" THEN body.value = JSONNull ELSE TRUE

\* the positions of the batch whose record's processing raised
RaisedAt == {i \in DOMAIN sqs.records : RaisesOn(sqs.records[i].body)}

\* the elements of a sequence at the positions of a set, in order
RECURSIVE Pick(_, _)
Pick(seq, positions) ==
    IF seq = <<>> THEN <<>>
    ELSE Pick(SubSeq(seq, 1, Len(seq) - 1), positions)
         \o (IF Len(seq) \in positions THEN <<seq[Len(seq)]>> ELSE <<>>)

\* the invocation has resolved or rejected
SqsSettled == sqs.pc \in {"resolved", "rejected"}

\* C22: when the invocation settles the callback has been called on every
\* record of the batch, in order; the invocation rejects exactly when some
\* record's processing raised; the count in its error is the number of
\* records that raised and failedMessages holds exactly their messageIds.
C22_BatchFailsIffARecordRaised ==
    SqsSettled =>
        /\ sqs.attempted = [i \in DOMAIN sqs.records |-> sqs.records[i].messageId]
        /\ Len(sqs.settled) = Len(sqs.records)
        /\ \A i \in DOMAIN sqs.records :
             (sqs.settled[i] = "rejected") <=> (i \in RaisedAt)
        /\ (sqs.pc = "rejected") <=> (RaisedAt # {})
        /\ sqs.failedMessages = Pick(sqs.attempted, RaisedAt)
        /\ sqs.pc = "rejected" => sqs.error = FailedToProcess(Cardinality(RaisedAt))

\* the first and third record raised, the second was processed, and the
\* invocation rejected naming the two
C22_Witness ==
    /\ sqs.pc = "rejected"
    /\ Len(sqs.records) = 3
    /\ sqs.did = <<"raised", "processOrder", "raised">>
    /\ sqs.failedMessages = <<1, 3>>
    /\ sqs.error = FailedToProcess(2)

\* the record's body is the text of an object or of a number whose type is
\* neither PROCESS_ORDER nor SEND_EMAIL
UnknownType(body) ==
    /\ body.kind = "json"
    /\ body.value # JSONNull
    /\ IF "type" \in DOMAIN body.value
       THEN body.value.type \notin {"PROCESS_ORDER", "SEND_EMAIL"}
       ELSE TRUE

\* C23: a record of an unknown or missing type is skipped and is not among
\* the failed ones, and an invocation on a batch of such records only
\* resolves.
C23_UnknownTypeSkipped ==
    /\ \A i \in 1..Len(sqs.did) :
         UnknownType(sqs.records[i].body) =>
             /\ sqs.did[i] = "skipped"
             /\ sqs.settled[i] = "fulfilled"
             /\ sqs.records[i].messageId \notin {sqs.failedMessages[j] :
                                                   j \in DOMAIN sqs.failedMessages}
    /\ (SqsSettled /\ \A i \in DOMAIN sqs.records : UnknownType(sqs.records[i].body)) =>
         /\ sqs.pc = "resolved"
         /\ sqs.failedMessages = <<>>

\* a batch of a message without a type and one of another type has resolved
C23_Witness ==
    /\ sqs.pc = "resolved"
    /\ Len(sqs.records) = 2
    /\ sqs.records[1].body = [kind |-> "json", value |-> <<>>]
    /\ sqs.records[2].body.value # <<>>
    /\ UnknownType(sqs.records[2].body)
    /\ sqs.did = <<"skipped", "skipped">>

(***************************************************************************)
(* Claims about EventPublisher, checked under SpecPublisher                *)
(***************************************************************************)

\* the entry of a response was accepted by the bus
Accepted(entry) == "EventId" \in DOMAIN entry

\* client.send resolved and the response reports no entry as failed
CleanResponse(response) ==
    IF "threw" \in DOMAIN response THEN FALSE
    ELSE \A i \in DOMAIN response.Entries : Accepted(response.Entries[i])

\* C24: an attempt whose response reports a failed entry, or whose send
\* rejects, is a failed attempt: the call goes on to another attempt or
\* rejects. A call that resolves does so on an attempt whose response reports
\* no failed entry, and a call rejects after maxRetries + 1 attempts none of
\* which had such a response.
C24_AnyFailedEntryFailsTheAttempt ==
    /\ \A i \in DOMAIN pub.responses :
         IF CleanResponse(pub.responses[i])
         THEN i = Len(pub.responses) /\ pub.r.pc = "returned"
         ELSE i < Len(pub.responses) \/ pub.r.pc \in {"sleep", "call", "thrown"}
    /\ pub.pc = "resolved" =>
         /\ pub.responses # <<>>
         /\ CleanResponse(pub.responses[Len(pub.responses)])
    /\ pub.pc = "rejected" =>
         /\ Len(pub.responses) = maxRetriesOf(PublisherRetryOptions) + 1
         /\ \A i \in DOMAIN pub.responses : ~CleanResponse(pub.responses[i])
         /\ pub.error = pub.r.lastError
    /\ Len(pub.responses) <= maxRetriesOf(PublisherRetryOptions) + 1

\* a batch of two whose first response reported one entry failed and one
\* accepted was sent again and resolved
C24_Witness ==
    /\ pub.pc = "resolved"
    /\ pub.op = "publishBatch"
    /\ Len(pub.events) = 2
    /\ Len(pub.responses) = 2
    /\ "FailedEntryCount" \in DOMAIN pub.responses[1]
    /\ pub.responses[1].FailedEntryCount = 1
    /\ Accepted(pub.responses[1].Entries[1])

\* C25: an entry the bus accepted in one attempt of a call is not among the
\* entries of a later attempt of that call.
C25_AcceptedEntryNotSentAgain ==
    \A i \in DOMAIN pub.responses, j \in DOMAIN pub.sent :
        (i < j /\ "Entries" \in DOMAIN pub.responses[i]) =>
            \A k \in DOMAIN pub.responses[i].Entries :
                Accepted(pub.responses[i].Entries[k]) => k \notin DOMAIN pub.sent[j]

(***************************************************************************)
(* More claims about the HTTP handlers and the service behind them,        *)
(* checked under SpecHttp                                                  *)
(***************************************************************************)

\* the keys the store read of listOrders(request) is about: those of the
\* customer's orders when a customer id is given, all of them otherwise
ListedKeys(request) ==
    IF "customerId" \in DOMAIN request
    THEN {k \in DOMAIN store : store[k].customerId = request.customerId}
    ELSE DOMAIN store

\* what the store answers to a read of those keys with the request's limit
\* and continuation token
ListedPage(request) ==
    storePage(store, ListedKeys(request),
              [k \in (DOMAIN request) \ {"customerId"} |-> request[k]])

\* C26: listOrders makes one store read: queryByIndex when a customer id is
\* given, findAll otherwise. The read carries the limit and the continuation
\* token of the call, and the call resolves with the items and the
\* continuation token of the store's answer.
C26_ListOrdersOneRead ==
    call[1].op = "listOrders" =>
        /\ call[1].log = IF "customerId" \in DOMAIN call[1].req
                         THEN <<"queryByIndex">> ELSE <<"findAll">>
        /\ call[1].pc = "done" =>
             /\ call[1].result.orders = ListedPage(call[1].req).Items
             /\ IF "LastEvaluatedKey" \in DOMAIN ListedPage(call[1].req)
                THEN /\ "nextToken" \in DOMAIN call[1].result
                     /\ decodeToken(call[1].result.nextToken)
                            = ListedPage(call[1].req).LastEvaluatedKey
                ELSE "nextToken" \notin DOMAIN call[1].result
        /\ call[1].pc \in {"done", "failed"}

\* a query for the orders of a customer who has none, on a table that holds
\* another customer's order, resolved with no orders
C26_Witness ==
    /\ call[1].op = "listOrders"
    /\ call[1].pc = "done"
    /\ call[1].log = <<"queryByIndex">>
    /\ call[1].req.customerId = "customer-123"
    /\ store # <<>>
    /\ call[1].result.orders = <<>>

\* the order createOrder has saved in this run
CreatedOrderId == FirstId + 1

\* C27: for a POST /orders whose body satisfies the schema, the request
\* given to createOrder is the body as validation normalized it: the country
\* of its shipping address is the one given, or "US" when none was given, and
\* so is the country of the order saved for it.
C27_CountryDefaultsToUS ==
    (/\ http.route = "createOrder"
     /\ call[1].op = "createOrder") =>
        LET given == http.event.body.value.shippingAddress
            country == IF "country" \in DOMAIN given THEN given.country ELSE "US"
        IN  /\ mw.validated
            /\ call[1].req = createOrderSchema_output(http.event.body.value)
            /\ "country" \in DOMAIN call[1].req.shippingAddress
            /\ call[1].req.shippingAddress.country = country
            /\ CreatedOrderId \in DOMAIN store =>
                 /\ "country" \in DOMAIN store[CreatedOrderId].shippingAddress
                 /\ store[CreatedOrderId].shippingAddress.country = country
                 /\ store[CreatedOrderId].shippingAddress.street = given.street

\* the order of a request without a country is in the table with country "US"
C27_Witness ==
    /\ RequestWithBody("createOrder", CreateBodyA)
    /\ "country" \notin DOMAIN http.event.body.value.shippingAddress
    /\ CreatedOrderId \in DOMAIN store
    /\ store[CreatedOrderId].shippingAddress.country = "US"


\* the members of the OrderStatus enum
OrderStatuses == {"PENDING", "PROCESSING", "SHIPPED", "DELIVERED", "CANCELLED"}

\* C28: after any sequence of POST, PUT and DELETE requests with arbitrary
\* bodies, the status of every stored order is one of PENDING, PROCESSING,
\* SHIPPED, DELIVERED and CANCELLED.
C28_StoredStatusInEnum ==
    \A k \in DOMAIN store :
        "status" \in DOMAIN store[k] => store[k].status \in OrderStatuses


\* the attributes of an order that an updateOrder(request) is not to change
KeptFields(request) ==
    {"orderId", "customerId", "customerEmail", "createdAt", "metadata"}
    \cup (IF "items" \in DOMAIN request THEN {} ELSE {"items", "totalAmount"})
    \cup (IF "status" \in DOMAIN request THEN {} ELSE {"status"})
    \cup (IF "shippingAddress" \in DOMAIN request THEN {} ELSE {"shippingAddress"})

\* C29: the step in which an updateOrder calls repository.update leaves the
\* order's orderId, customerId, customerEmail, createdAt and metadata as they
\* were, leaves items and totalAmount, status and shippingAddress as they were
\* when the request does not supply them, and leaves every other stored order
\* as it was; no other step of an updateOrder changes the store.
C29_UpdateKeepsTheRest ==
    [][\A p \in Calls :
          /\ (call[p].op = "updateOrder" /\ call[p].pc = "update" /\ call'[p].pc # "update")
                => LET id == call[p].req.orderId
                   IN  /\ \A k \in (DOMAIN store) \ {id} :
                              k \in DOMAIN store' /\ store'[k] = store[k]
                       /\ DOMAIN store' \subseteq (DOMAIN store) \cup {id}
                       /\ (id \in DOMAIN store /\ call'[p].pc = "publish")
                              => /\ id \in DOMAIN store'
                                 /\ \A f \in KeptFields(call[p].req) :
                                        /\ f \in DOMAIN store'[id] <=> f \in DOMAIN store[id]
                                        /\ f \in DOMAIN store[id] => store'[id][f] = store[id][f]
          /\ (call'[p].op = "updateOrder" /\ call[p].pc # "update" /\ call'[p] # call[p])
                => store' = store]_vars

\* an updateOrder whose request also names a customerId and a createdAt has
\* updated the earlier order while another order is stored, and the order still
\* has the customer and the creation time it was built with
C29_Witness ==
    \E p \in Running("updateOrder") :
        /\ call[p].pc = "publish"
        /\ "customerId" \in DOMAIN call[p].req
        /\ call[p].req.orderId = FirstId
        /\ DOMAIN call[p].applied = {"updatedAt", "version", "status"}
        /\ DOMAIN store = {FirstId, FirstId + 1}
        /\ store[FirstId].status = "CANCELLED"
        /\ store[FirstId].customerId # call[p].req.customerId
        /\ store[FirstId].createdAt = 0


\* the docClient.send calls the repository method has made so far
StoreCalls == repo.sends

\* C30: a repository method (findById, findAll, save, update, delete,
\* queryByIndex) calls the store at most 4 times and never again after a call
\* that succeeded; it returns only when its last store call succeeded, and it
\* rejects only when 4 store calls have failed, with the error of the last one.
C30_RepositoryRetriesStoreCalls ==
    LET n == Len(StoreCalls)
    IN  /\ n <= 4
        /\ \A i \in 1..(n - 1) : ~StoreCalls[i].ok
        /\ repo.pc = "resolved" => (n >= 1 /\ StoreCalls[n].ok)
        /\ repo.pc = "rejected" =>
              /\ n = 4
              /\ ~StoreCalls[n].ok
              /\ repo.error = StoreCalls[n].error

\* an update has rejected after four failed store calls of which the first
\* and the last failed differently
C30_Witness ==
    /\ repo.pc = "rejected"
    /\ repo.op = "update"
    /\ Len(StoreCalls) = 4
    /\ StoreCalls[1].error # StoreCalls[4].error
    /\ repo.error = StoreThrottled


\* the names entered and the names left so far, each in the order it happened
EnteredNames ==
    LET s == SelectSeq(mw.trace, LAMBDA e : e.at = "enter") IN [i \in DOMAIN s |-> s[i].of]
LeftNames ==
    LET s == SelectSeq(mw.trace, LAMBDA e : e.at = "exit") IN [i \in DOMAIN s |-> s[i].of]

\* the middlewares given to withMiddleware from the first to the last, then the handler
Stack == mw.chain \o <<"handler">>

\* C31: the middlewares given to withMiddleware are entered from the first to
\* the last and then the handler, so that the first is the outermost, and
\* they are left in the reverse order: for createOrderHandler the order is
\* error boundary, logging, CORS, validation, handler, and back.
C31_EnteredInOrderLeftInReverse ==
    LET n == Len(EnteredNames)
        m == Len(LeftNames)
    IN  /\ n <= Len(Stack) /\ m <= n
        /\ \A i \in 1..n : EnteredNames[i] = Stack[i]
        /\ \A j \in 1..m : LeftNames[j] = EnteredNames[n + 1 - j]
        /\ \A i, j \in 1..Len(mw.trace) :
              i < j => ~(mw.trace[i].at = "exit" /\ mw.trace[j].at = "enter")
        /\ mw.pc \in {"responded", "escaped"} => (n >= 1 /\ m = n)

\* a request has gone through the four middlewares of createOrderHandler to
\* the handler and all the way back
C31_Witness ==
    /\ mw.pc = "responded"
    /\ mw.chain = <<"errorHandler", "logging", "cors", "validation">>
    /\ EnteredNames = <<"errorHandler", "logging", "cors", "validation", "handler">>
    /\ LeftNames = <<"handler", "validation", "cors", "logging", "errorHandler">>


\* the request is over: the composed handler has resolved or rejected
RequestOver == mw.pc \in {"responded", "escaped"}

\* C32: when a request that entered the logging middleware is over, the
\* console holds a "Request completed" line after its "Request received"
\* line, whatever the inner chain did.
C32_ExitRecordAlwaysLogged ==
    RequestOver =>
        \A i \in 1..Len(mw.console) :
            mw.console[i].message = "Request received"
                => \E j \in (i + 1)..Len(mw.console) :
                       mw.console[j].message = "Request completed"


\* the updateOrder calls whose repository.update has succeeded and which have
\* not returned yet
Updated == {p \in Running("updateOrder") : call[p].pc \in {"publish", "done"}}

C34_RequestsDoNotInterfere ==
    \A q \in Requests :
        LET c == conc.req[q]
        IN  c.pc # "idle" =>
               /\ c.entered = conc.chain
               /\ Len(c.handlerEvents) <= 1
               /\ \A i \in 1..Len(c.handlerEvents) : c.handlerEvents[i] = c.event
               /\ (c.event.body = "valid" \/ \A i \in 1..Len(conc.chain) :
                                                 conc.chain[i] # "validation")
                     => c.handlerEvents = <<c.event>>

\* two requests are inside the four-middleware chain at once, one in its
\* handler and one on its way out, each having entered the four middlewares
C34_Witness ==
    \E p, q \in Requests :
        /\ p # q
        /\ Len(conc.chain) = 4
        /\ conc.req[p].pc = "handler"
        /\ conc.req[q].pc = "unwinding" /\ conc.req[q].depth = 2
        /\ conc.req[q].handlerEvents = <<conc.req[q].event>>
        /\ conc.req[p].entered = conc.chain /\ conc.req[q].entered = conc.chain


\* C35: a PUT /orders/{orderId} request modifies no order other than the one
\* its path names, whatever its body holds: every other stored order is at
\* the version it was created with.
C35_OnlyThePathOrderIsUpdated ==
    (http.route = "updateOrder" /\ hasOrderId(http.event)) =>
        \A k \in DOMAIN store :
            (k # http.event.pathParameters.orderId /\ "version" \in DOMAIN store[k])
                => store[k].version = 1


\* the deleteOrder calls whose repository.delete has succeeded
Deleted ==
    {p \in Calls : call[p].op = "deleteOrder" /\ call[p].pc \in {"publish", "done", "resolved"}}

\* C36: once a deleteOrder has removed an order, the store holds no record
\* under that id, whatever concurrent updateOrder calls on the id do.
C36_DeletedOrderStaysAbsent ==
    \A p \in Deleted : call[p].req.orderId \notin DOMAIN store

\* the ORDER_DELETED entries the bus has accepted
DeletedEntries == {e \in BagToSet(bus) : e.DetailType = "ORDER_DELETED"}

\* C37: the bus holds at most one ORDER_DELETED entry for an order id,
\* whatever concurrent deleteOrder calls on the order do.
C37_OneDeletedEventPerOrder ==
    \A e, f \in DeletedEntries :
        e.Detail.orderId = f.Detail.orderId => (e = f /\ CopiesIn(e, bus) = 1)


\* C38: the step in which eventPublisher.publish settles for a createOrder,
\* an updateOrder or a deleteOrder leaves the store as the call's write made
\* it; when every attempt failed, so that the bus got nothing, the call
\* rejects with the publisher's error, and otherwise it resolves.
C38_PublishFailureKeepsTheWrite ==
    [][\A p \in Calls :
          (call[p].pc = "publish" /\ call'[p] # call[p])
             => /\ store' = store
                /\ call'[p].log = call[p].log
                /\ IF bus' = bus
                   THEN /\ call'[p].pc = "failed"
                        /\ call'[p].error \in {PublishFailed, BusUnavailable}
                   ELSE call'[p].pc = "done"]_vars

\* an updateOrder has rejected with the publisher's error after its update
\* was applied, and the order is stored at the incremented version
C38_Witness ==
    \E p \in Running("updateOrder") :
        /\ call[p].pc = "failed"
        /\ call[p].error = PublishFailed
        /\ call[p].log = <<"findById", "update", "publish">>
        /\ call[p].req.orderId \in DOMAIN store
        /\ store[call[p].req.orderId].version = call[p].existing.version + 1
        /\ bus = EmptyBag

=============================================================================
